---- MODULE Spec2Model ----
(***************************************************************************)
(* Transaction lifecycle interceptor of hiero-enterprise-js: the listener  *)
(* registry of HieroContext, the sequential before/after dispatch, and the *)
(* service operations that emit events around a ledger call; the singleton *)
(* lifecycle of HieroContext (initialize / get / reset); normalizeError;   *)
(* the query methods and converters of MirrorNodeClient; and the chunking  *)
(* of FileClient.createFile.                                               *)
(*                                                                         *)
(* Every action is one synchronous segment of JavaScript code: it runs     *)
(* from one suspension point (an await) to the next. States are therefore  *)
(* exactly the points at which other callers may run.                      *)
(***************************************************************************)
EXTENDS Integers, Sequences, FiniteSets, TLC

\* ------------------------------------------------------------------ bounds
\* registry calls (add/remove) made while service calls are being issued
MaxRegistryOps == 3
\* registry calls made when the registry is exercised on its own
MaxRegistryOnlyOps == 5
\* the millisecond clock stops advancing at this value
MaxClock == 1
\* static calls (initialize/get/reset) made on HieroContext
MaxLifecycleCalls == 3
\* top-level keys of a mirror node response body
MaxKeys == 2
\* items in an array of a mirror node response body
MaxItems == 2
\* fees in each of the three fee arrays of a token response
MaxFees == 2
\* query methods invoked one after the other on a MirrorNodeClient
MaxQueries == 2
\* applications of normalizeError to a value and to its own results
MaxNormalizations == 2
\* file contents are up to this many full chunks long, give or take a byte
MaxChunks == 2

\* ------------------------------------------------------------ basic values
None == << >>
Some(x) == << x >>

\* callers of service methods on the one context; a caller awaits each
\* call before it issues its next one, callers run concurrently
Calls == {"A", "B"}

\* listener objects: which of the two optional hooks each one defines
\* (TransactionListener.onBeforeTransaction?, onAfterTransaction?)
Listeners == {"L1", "L2"}

\* if (listener.onBeforeTransaction) / if (listener.onAfterTransaction)
DefinesHook(l, phase) ==
    CASE l = "L1" -> TRUE
      [] l = "L2" -> phase = "before"

\* values a ledger call or a listener hook may throw: an Error instance
\* (optionally an SDK error carrying status._code), or any other thrown
\* value. origin tells objects of equal content apart (object identity).
\* code, context and cause are the HieroError fields.
ErrorObject(kind, msg, origin, statusCode, code, context, cause) ==
    [kind |-> kind, msg |-> msg, origin |-> origin, statusCode |-> statusCode,
     code |-> code, context |-> context, cause |-> cause]

ErrNetwork == ErrorObject("Error", "NETWORK_ERROR", "ledger", None, None, None, None)
ThrownString == ErrorObject("Other", "boom", "ledger", None, None, None, None)
ErrHook == ErrorObject("Error", "listener failed", "hook", None, None, None, None)
\* reading a property of undefined
TypeErrorUndefined ==
    ErrorObject("Error", "Cannot read properties of undefined", "runtime",
                None, None, None, None)

LedgerFailures == {ErrNetwork, ThrownString}
HookFailures == {ErrHook}

\* error instanceof Error
InstanceOfError(e) == e.kind \in {"Error", "HieroError"}

\* String(value) of a thrown value that is no Error: msg spells the value,
\* a string as itself and a number, null or undefined with a prefix
String(value) ==
    CASE value = "number:42" -> "42"
      [] value = "null:" -> "null"
      [] value = "undefined:" -> "undefined"
      [] OTHER -> value

\* status._code.toString() of the status codes an SDK error carries
NumberToString(n) ==
    CASE n = 0 -> "0"
      [] n = 22 -> "22"
      [] n = 404 -> "404"

\* new HieroError(error.message, { code, context, cause: error })
Wrapped(e, context) ==
    ErrorObject("HieroError", e.msg, "normalizeError", None,
                IF e.statusCode # None THEN Some(NumberToString(e.statusCode[1]))
                ELSE Some("SDK_ERROR"),
                context, Some(e))

\* new HieroError(String(error), { code: 'UNKNOWN', context })
WrappedValue(e, context) ==
    ErrorObject("HieroError", String(e.msg), "normalizeError", None,
                Some("UNKNOWN"), context, None)

\* normalizeError without its first test: a HieroError is an Error
normalizeErrorWrappingAll(e, context) ==
    IF InstanceOfError(e) THEN Wrapped(e, context) ELSE WrappedValue(e, context)

\* normalizeError(error, context); context is optional
normalizeError(e, context) ==
    IF e.kind = "HieroError" THEN e
    ELSE IF InstanceOfError(e) THEN Wrapped(e, context)
    ELSE WrappedValue(e, context)

\* error instanceof Error ? error : new Error(String(error))
EventErrorNormalized(e) == normalizeError(e, None)
EventError(e) ==
    IF InstanceOfError(e) THEN e
    ELSE ErrorObject("Error", String(e.msg), "new Error", None, None, None, None)

\* ------------------------------------------------------ service operations
\* ledger-mutating service methods; the first two are written with the
\* emitBefore / try / emitAfter / catch template, the last two without it
Operations == {"NftClient.createNftType", "FileClient.createFile",
               "AccountClient.createAccount", "TopicClient.createTopic"}

\* whether the method body calls context.emitBeforeTransaction / emitAfterTransaction
EmitsEvents(o) ==
    CASE o = "NftClient.createNftType" -> TRUE
      [] o = "NftClient.associateNft" -> TRUE
      [] o = "FileClient.createFile" -> TRUE
      [] o = "AccountClient.createAccount" -> FALSE
      [] o = "TopicClient.createTopic" -> FALSE

EventType(o) ==
    CASE o = "NftClient.createNftType" -> "NftCreate"
      [] o = "NftClient.associateNft" -> "NftAssociate"
      [] o = "FileClient.createFile" -> "FileCreate"
      [] OTHER -> "-"

ServiceName(o) ==
    CASE o \in {"NftClient.createNftType", "NftClient.associateNft"} -> "NftClient"
      [] o \in {"FileClient.createFile"} -> "FileClient"
      [] o \in {"AccountClient.createAccount"} -> "AccountClient"
      [] o \in {"TopicClient.createTopic"} -> "TopicClient"

MethodName(o) ==
    CASE o = "NftClient.createNftType" -> "createNftType"
      [] o = "NftClient.associateNft" -> "associateNft"
      [] o = "FileClient.createFile" -> "createFile"
      [] o = "AccountClient.createAccount" -> "createAccount"
      [] o = "TopicClient.createTopic" -> "createTopic"

\* createEvent(type, methodName): the envelope built once per call
createEvent(o, t) ==
    [type |-> EventType(o), serviceName |-> ServiceName(o),
     methodName |-> MethodName(o), timestamp |-> t,
     transactionId |-> None, status |-> None, error |-> None,
     durationMs |-> None]

\* { ...event, transactionId, status, durationMs: Date.now() - start }
SuccessEvent(event, txId, t, startedAt) ==
    [event EXCEPT !.transactionId = Some(txId), !.status = Some("SUCCESS"),
                  !.durationMs = Some(t - startedAt)]

\* { ...event, error: ..., durationMs: Date.now() - start }
FailureEvent(event, e, t, startedAt) ==
    [event EXCEPT !.error = Some(EventError(e)), !.durationMs = Some(t - startedAt)]

\* response.transactionId.toString()
TransactionIdOf(c) == IF c = "A" THEN "0.0.2@1" ELSE "0.0.2@2"

\* ------------------------------------------------------------------- state
VARIABLES
    listeners,   \* HieroContext.listeners: the registry, an array
    regOps,      \* number of add/remove calls made so far
    registered,  \* per listener: registrations it holds by the calls made
    lastRegistryCall, \* the latest add/remove call and the registry it found
    now,         \* Date.now()
    call,        \* per caller: the locals of its current service call
    trace,       \* per caller: what its current call did and saw, in order
    order,       \* the dispatches of the current calls, in the order they began
    instance,    \* HieroContext.instance: the singleton, or null
    clients,     \* the ledger clients constructed so far (Client.forX())
    env,         \* process.env as resolveConfigFromEnv reads it
    lifecycleCalls, \* number of initialize/get/reset calls made so far
    staticResult, \* the latest initialize/get/reset call and how it ended
    raw,         \* a mirror node response body: its top-level entries in key order
    page,        \* the Page convertPage made of it, if it was called
    input,       \* the argument a converter or normalizeError is applied to
    output,      \* what it returned, once it was applied
    query,       \* the MirrorNodeClient query method in progress, and its end
    requests,    \* the GET requests the query method has made, in order
    fileContents \* length of the Uint8Array passed to FileClient.createFile

eventVars == <<listeners, regOps, registered, lastRegistryCall, now, call, trace, order>>
lifecycleVars == <<instance, clients, env, lifecycleCalls, staticResult>>
pageVars == <<raw, page>>
pureVars == <<input, output>>
mirrorVars == <<query, requests>>
fileVars == <<fileContents>>

vars == <<eventVars, lifecycleVars, pageVars, pureVars, mirrorVars, fileVars>>

\* the await a dispatch is suspended at, per dispatch site
DispatchSites == {"before", "afterTry", "afterCatch"}
\* the dispatch promise has settled, the service method has not resumed yet
ReturnSites == {"beforeRet", "afterTryRet", "afterCatchRet"}

HookPhase(site) == IF site = "before" THEN "before" ELSE "after"
ReturnSite(site) ==
    CASE site = "before" -> "beforeRet"
      [] site = "afterTry" -> "afterTryRet"
      [] site = "afterCatch" -> "afterCatchRet"

IdleCall ==
    [pc |-> "idle", op |-> "-", idx |-> 0, inflight |-> << >>,
     event |-> None, startedAt |-> None, caught |-> None, settle |-> None,
     offset |-> 0, chunks |-> << >>, result |-> None]

\* one entry of a call's trace, with the time at which it was made
Entry(k, site, l, ev, err, reg) ==
    [k |-> k, site |-> site, l |-> l, ev |-> ev, err |-> err, reg |-> reg,
     at |-> now]

\* ---------------------------------------------------------------- registry
\* Array.prototype.push
Push(ls, l) == Append(ls, l)

\* Array.prototype.indexOf: zero-based index of the first strictly-equal
\* element, -1 when there is none
RECURSIVE IndexFrom(_, _, _)
IndexFrom(ls, l, i) ==
    IF i >= Len(ls) THEN -1
    ELSE IF ls[i + 1] = l THEN i
    ELSE IndexFrom(ls, l, i + 1)

\* Array.prototype.lastIndexOf
RECURSIVE LastIndexFrom(_, _, _)
LastIndexFrom(ls, l, i) ==
    IF i < 0 THEN -1
    ELSE IF ls[i + 1] = l THEN i
    ELSE LastIndexFrom(ls, l, i - 1)

LastIndexOf(ls, l) == LastIndexFrom(ls, l, Len(ls) - 1)

IndexOf(ls, l) == IndexFrom(ls, l, 0)

\* Array.prototype.splice(start, 1) with 0 <= start < length
Splice1AtNext(ls, start) ==
    IF start + 1 < Len(ls)
    THEN [j \in 1..(Len(ls) - 1) |-> IF j <= start + 1 THEN ls[j] ELSE ls[j + 1]]
    ELSE ls

Splice1(ls, start) ==
    [j \in 1..(Len(ls) - 1) |-> IF j <= start THEN ls[j] ELSE ls[j + 1]]

\* removeTransactionListener: const idx = indexOf(listener); if (idx !== -1) splice(idx, 1)
RemovedUnlessFirst(ls, l) ==
    LET i == IndexOf(ls, l) IN
    IF i > 0 THEN Splice1(ls, i) ELSE ls

Removed(ls, l) ==
    LET i == IndexOf(ls, l) IN
    IF i # -1 THEN Splice1(ls, i) ELSE ls

\* ---------------------------------------------------------------- dispatch
\* for (const listener of this.listeners) { if (listener.onX) await listener.onX(event) }
\* The array iterator compares its index with this.listeners.length and reads
\* this.listeners[index] afresh at every step, so it sees every push and splice.
IteratorHasNext(ls, i) == i < Len(ls)

\* this.listeners[i]: undefined beyond the end of the array
ElementAt(ls, i) == IF i < Len(ls) THEN ls[i + 1] ELSE "undefined"

\* `await listener.onX(event)`: the loop is suspended until the hook settles
HookNotAwaited == FALSE
AwaitsHook == TRUE

\* one synchronous run of the loop from iterator index i: the hooks it
\* invokes, the iterator index it stops at, whether the loop has ended, and
\* the exception that ended it (listener.onX with listener undefined)
RECURSIVE LoopSegment(_, _, _)
LoopSegment(ls, i, phase) ==
    IF ~IteratorHasNext(ls, i)
    THEN [invoked |-> << >>, next |-> i, done |-> TRUE, raised |-> None]
    ELSE LET l == ElementAt(ls, i) IN
         IF l = "undefined"
         THEN [invoked |-> << >>, next |-> i + 1, done |-> TRUE,
               raised |-> Some(TypeErrorUndefined)]
         ELSE IF DefinesHook(l, phase)
         THEN IF AwaitsHook
              THEN [invoked |-> << l >>, next |-> i + 1, done |-> FALSE,
                    raised |-> None]
              ELSE LET r == LoopSegment(ls, i + 1, phase)
                   IN  [r EXCEPT !.invoked = << l >> \o @]
         ELSE LoopSegment(ls, i + 1, phase)

BeginEntries(site, ev, ls) ==
    [j \in 1..Len(ls) |-> Entry("begin", site, ls[j], Some(ev), None, << >>)]

InFlight(site, ls) == [j \in 1..Len(ls) |-> [l |-> ls[j], site |-> site]]

\* the event currently being dispatched by a call: the argument of the emit
DispatchedEvent(tr) ==
    LET emits == SelectSeq(tr, LAMBDA x : x.k = "emit")
    IN  emits[Len(emits)].ev[1]

\* run the loop on from st.idx; st.pc is a dispatch site
ContinueLoop(st, tr, ev) ==
    LET seg == LoopSegment(listeners, st.idx, HookPhase(st.pc)) IN
    [st |-> [st EXCEPT !.idx = seg.next,
                       !.inflight = @ \o InFlight(st.pc, seg.invoked),
                       !.settle = seg.raised,
                       !.pc = IF seg.done THEN ReturnSite(@) ELSE @],
     tr |-> tr \o BeginEntries(st.pc, ev, seg.invoked)]

\* emitBeforeTransaction(event) / emitAfterTransaction(event) called at `site`
EmitDetached(st, tr, site, ev) ==
    LET d == ContinueLoop([st EXCEPT !.pc = site, !.idx = 0, !.settle = None],
                 Append(tr, Entry("emit", site, "-", Some(ev), None, listeners)),
                 ev)
    IN  [d EXCEPT !.st.pc = ReturnSite(site)]

Emit(st, tr, site, ev) ==
    ContinueLoop([st EXCEPT !.pc = site, !.idx = 0, !.settle = None],
                 Append(tr, Entry("emit", site, "-", Some(ev), None, listeners)),
                 ev)

\* a synchronous registry call shows in the trace of every call in flight
NoteRegistryCall(k, l) ==
    [c \in Calls |->
        IF call[c].pc \notin {"idle", "done"}
        THEN Append(trace[c], Entry(k, call[c].pc, l, None, None, listeners))
        ELSE trace[c]]

\* the dispatches a trace holds, as <<caller, site>> in the order they began
DispatchesIn(c, tr) ==
    LET emits == SelectSeq(tr, LAMBDA x : x.k = "emit")
    IN  [j \in 1..Len(emits) |-> [c |-> c, site |-> emits[j].site]]

\* a call of caller c went on from trace tr0 to tr1: the dispatches it began
\* in between come after every dispatch begun so far
DispatchesNoted(c, tr0, tr1) ==
    LET before == Len(DispatchesIn(c, tr0))
        after  == DispatchesIn(c, tr1)
    IN  order \o SubSeq(after, before + 1, Len(after))

\* caller c issues a new call: the dispatches of its previous call are forgotten
DispatchesOfNewCall(c, tr1) ==
    SelectSeq(order, LAMBDA d : d.c # c) \o DispatchesIn(c, tr1)

\* ----------------------------------------------------------------- actions
\* context.addTransactionListener(listener)
addTransactionListener(l) ==
    /\ listeners' = Push(listeners, l)
    /\ regOps' = regOps + 1
    /\ registered' = [registered EXCEPT ![l] = @ + 1]
    /\ lastRegistryCall' = [k |-> "add", l |-> l, found |-> listeners]
    /\ trace' = NoteRegistryCall("add", l)
    /\ UNCHANGED <<now, call, order, lifecycleVars, pageVars,
                 pureVars, mirrorVars, fileVars>>

\* context.removeTransactionListener(listener)
removeTransactionListener(l) ==
    /\ listeners' = Removed(listeners, l)
    /\ regOps' = regOps + 1
    /\ registered' = [registered EXCEPT ![l] = IF @ > 0 THEN @ - 1 ELSE 0]
    /\ lastRegistryCall' = [k |-> "remove", l |-> l, found |-> listeners]
    /\ trace' = NoteRegistryCall("remove", l)
    /\ UNCHANGED <<now, call, order, lifecycleVars, pageVars,
                 pureVars, mirrorVars, fileVars>>

\* a millisecond passes while some call is in flight
Tick ==
    /\ now < MaxClock
    /\ \E c \in Calls : call[c].pc \notin {"idle", "done"}
    /\ now' = now + 1
    /\ UNCHANGED <<listeners, regOps, registered, lastRegistryCall, call, trace, order,
                   lifecycleVars, pageVars,
                 pureVars, mirrorVars, fileVars>>

\* file-client.ts: const MAX_CHUNK_SIZE = 4096
MAX_CHUNK_SIZE == 4096

Min(a, b) == IF a < b THEN a ELSE b
Max(a, b) == IF a < b THEN b ELSE a

\* contents.slice(start, end) of contents of the given length, as the range
\* of bytes [from, to) it holds: both ends are clipped to the length
Slice(length, start, end) ==
    LET from == Min(start, length)
    IN  [from |-> from, to |-> Max(from, Min(end, length))]

\* a FileCreateTransaction / FileAppendTransaction and the bytes it holds
FileTransaction(k, bytes) == [k |-> k, from |-> bytes.from, to |-> bytes.to]

\* the try block up to its first await: the transaction is built and
\* tx.execute(client) is called; createFile builds it from the first chunk
Submit(st, tr) ==
    [st |-> [st EXCEPT !.pc = "exec",
                       !.chunks = IF st.op = "FileClient.createFile"
                                  THEN << FileTransaction("create",
                                              Slice(fileContents, 0, MAX_CHUNK_SIZE)) >>
                                  ELSE << >>],
     tr |-> Append(tr, Entry("submit", "-", "-", None, None, << >>))]

\* a service method is called: everything up to its first suspension
InvokeWithoutAwait(c, o) ==
    /\ call[c].pc \in {"idle", "done"}
    /\ LET st == [IdleCall EXCEPT !.op = o]
           ev == createEvent(o, now)
           r  == IF EmitsEvents(o)
                 THEN LET d == Emit([st EXCEPT !.event = Some(ev)], << >>, "before", ev)
                      IN  Submit([d.st EXCEPT !.startedAt = Some(now)], d.tr)
                 ELSE Submit(st, << >>)
       IN  /\ call' = [call EXCEPT ![c] = r.st]
           /\ trace' = [trace EXCEPT ![c] = r.tr]
           /\ order' = DispatchesOfNewCall(c, r.tr)
    /\ UNCHANGED <<listeners, regOps, registered, lastRegistryCall, now, lifecycleVars, pageVars,
                 pureVars, mirrorVars, fileVars>>

Invoke(c, o) ==
    /\ call[c].pc \in {"idle", "done"}
    /\ LET st == [IdleCall EXCEPT !.op = o]
           ev == createEvent(o, now)
           r  == IF EmitsEvents(o)
                 THEN Emit([st EXCEPT !.event = Some(ev)], << >>, "before", ev)
                 ELSE Submit(st, << >>)
       IN  /\ call' = [call EXCEPT ![c] = r.st]
           /\ trace' = [trace EXCEPT ![c] = r.tr]
           /\ order' = DispatchesOfNewCall(c, r.tr)
    /\ UNCHANGED <<listeners, regOps, registered, lastRegistryCall, now, lifecycleVars, pageVars,
                 pureVars, mirrorVars, fileVars>>

\* the catch block: await emitAfterTransaction({...event, error, durationMs})
Catch(st, tr, e) ==
    Emit([st EXCEPT !.caught = Some(e)], tr, "afterCatch",
         FailureEvent(st.event[1], e, now, st.startedAt[1]))

\* the end of a service method: its promise settles
Return(st, tr, outcome) ==
    [st |-> [st EXCEPT !.pc = "done", !.result = Some(outcome)], tr |-> tr]

Resolved == [ok |-> TRUE, err |-> None]
Rejected(e) == [ok |-> FALSE, err |-> Some(e)]

\* the hooks in flight once the k-th of them has settled
Settled(hs, k) == [j \in 1..(Len(hs) - 1) |-> IF j < k THEN hs[j] ELSE hs[j + 1]]

\* a hook that was invoked returns (or its promise resolves); the loop that
\* awaits it runs on to the next hook or to its end
HookResolve(c) ==
    /\ call[c].inflight # << >>
    /\ \E k \in 1..Len(call[c].inflight) :
        LET st0 == call[c]
            h   == st0.inflight[k]
            st  == [st0 EXCEPT !.inflight = Settled(@, k)]
            tr  == Append(trace[c], Entry("end", h.site, h.l, None, None, << >>))
            r   == IF st.pc \in DispatchSites /\ AwaitsHook
                   THEN ContinueLoop(st, tr, DispatchedEvent(tr))
                   ELSE [st |-> st, tr |-> tr]
        IN  /\ call' = [call EXCEPT ![c] = r.st]
            /\ trace' = [trace EXCEPT ![c] = r.tr]
            /\ order' = DispatchesNoted(c, trace[c], r.tr)
    /\ UNCHANGED <<listeners, regOps, registered, lastRegistryCall, now, lifecycleVars, pageVars,
                 pureVars, mirrorVars, fileVars>>

\* a hook that was invoked throws (or its promise rejects) e: the await in
\* the loop rethrows, nothing in emitBefore/AfterTransaction catches it, so
\* the promise of the dispatch rejects with e
HookReject(c, e) ==
    /\ call[c].inflight # << >>
    /\ \E k \in 1..Len(call[c].inflight) :
        LET st0 == call[c]
            h   == st0.inflight[k]
            st  == [st0 EXCEPT !.inflight = Settled(@, k)]
            tr  == Append(trace[c], Entry("throw", h.site, h.l, None, Some(e), << >>))
        IN  /\ call' = [call EXCEPT ![c] =
                  IF st.pc \in DispatchSites /\ AwaitsHook
                  THEN [st EXCEPT !.pc = ReturnSite(@), !.settle = Some(e)]
                  ELSE st]
            /\ trace' = [trace EXCEPT ![c] = tr]
            /\ order' = order
    /\ UNCHANGED <<listeners, regOps, registered, lastRegistryCall, now, lifecycleVars, pageVars,
                 pureVars, mirrorVars, fileVars>>

\* the service method resumes after `await this.context.emitBeforeTransaction(event)`:
\* const start = Date.now(); try { ... await tx.execute(client)
ResumeAfterBeforeStartAtEvent(st, tr) ==
    IF st.settle # None
    THEN Return(st, tr, Rejected(st.settle[1]))
    ELSE Submit([st EXCEPT !.startedAt = Some(st.event[1].timestamp)], tr)

ResumeAfterBefore(st, tr) ==
    IF st.settle # None
    THEN Return(st, tr, Rejected(st.settle[1]))
    ELSE Submit([st EXCEPT !.startedAt = Some(now)], tr)

\* ... after the `await this.context.emitAfterTransaction(...)` of the try block
ResumeAfterTry(st, tr) ==
    IF st.settle # None
    THEN Catch(st, tr, st.settle[1])
    ELSE Return(st, tr, Resolved)

\* ... after the `await this.context.emitAfterTransaction(...)` of the catch
\* block: throw normalizeError(error, "<Service>.<method>")
ResumeAfterCatch(st, tr) ==
    IF st.settle # None
    THEN Return(st, tr, Rejected(st.settle[1]))
    ELSE Return(st, tr, Rejected(normalizeError(st.caught[1], Some(st.op))))

Resume(c) ==
    /\ call[c].pc \in ReturnSites
    /\ LET st == call[c]
           r  == CASE st.pc = "beforeRet" -> ResumeAfterBefore(st, trace[c])
                   [] st.pc = "afterTryRet" -> ResumeAfterTry(st, trace[c])
                   [] st.pc = "afterCatchRet" -> ResumeAfterCatch(st, trace[c])
       IN  /\ call' = [call EXCEPT ![c] = r.st]
           /\ trace' = [trace EXCEPT ![c] = r.tr]
           /\ order' = DispatchesNoted(c, trace[c], r.tr)
    /\ UNCHANGED <<listeners, regOps, registered, lastRegistryCall, now, lifecycleVars, pageVars,
                 pureVars, mirrorVars, fileVars>>

\* while (offset < contents.length) { chunk = contents.slice(offset, offset +
\* MAX_CHUNK_SIZE); await new FileAppendTransaction()...execute(client); ... }
\* from the test of the loop on, and the success emit that follows the loop
AppendLoop(st, tr, offset, txId) ==
    IF offset < fileContents
    THEN [st |-> [st EXCEPT
                    !.pc = "append",
                    !.offset = offset,
                    !.chunks = Append(@, FileTransaction("append",
                                   Slice(fileContents, offset, offset + MAX_CHUNK_SIZE)))],
          tr |-> tr]
    ELSE Emit([st EXCEPT !.offset = offset], tr, "afterTry",
              SuccessEvent(st.event[1], txId, now, st.startedAt[1]))

\* tx.execute / getReceipt resolve
OnLedgerSuccess(st, tr, txId) ==
    IF EmitsEvents(st.op)
    THEN IF st.op = "FileClient.createFile" /\ fileContents > MAX_CHUNK_SIZE
         THEN AppendLoop(st, tr, MAX_CHUNK_SIZE, txId)
         ELSE Emit(st, tr, "afterTry",
                   SuccessEvent(st.event[1], txId, now, st.startedAt[1]))
    ELSE Return(st, tr, Resolved)

\* tx.execute / getReceipt reject with e
OnLedgerFailure(st, tr, e) ==
    IF EmitsEvents(st.op)
    THEN Catch(st, tr, e)
    ELSE Return(st, tr, Rejected(normalizeError(e, Some(st.op))))

LedgerResolve(c) ==
    /\ call[c].pc = "exec"
    /\ LET r == OnLedgerSuccess(call[c],
                    Append(trace[c], Entry("ledgerOk", "-", "-", None, None, << >>)),
                    TransactionIdOf(c))
       IN  /\ call' = [call EXCEPT ![c] = r.st]
           /\ trace' = [trace EXCEPT ![c] = r.tr]
           /\ order' = DispatchesNoted(c, trace[c], r.tr)
    /\ UNCHANGED <<listeners, regOps, registered, lastRegistryCall, now, lifecycleVars, pageVars,
                 pureVars, mirrorVars, fileVars>>

LedgerReject(c, e) ==
    /\ call[c].pc = "exec"
    /\ LET r == OnLedgerFailure(call[c],
                    Append(trace[c], Entry("ledgerFail", "-", "-", None, Some(e), << >>)),
                    e)
       IN  /\ call' = [call EXCEPT ![c] = r.st]
           /\ trace' = [trace EXCEPT ![c] = r.tr]
           /\ order' = DispatchesNoted(c, trace[c], r.tr)
    /\ UNCHANGED <<listeners, regOps, registered, lastRegistryCall, now, lifecycleVars, pageVars,
                 pureVars, mirrorVars, fileVars>>

\* the execute of a FileAppendTransaction resolves: offset += MAX_CHUNK_SIZE
AppendResolve(c) ==
    /\ call[c].pc = "append"
    /\ LET r == AppendLoop(call[c],
                    Append(trace[c], Entry("appendOk", "-", "-", None, None, << >>)),
                    call[c].offset + MAX_CHUNK_SIZE, TransactionIdOf(c))
       IN  /\ call' = [call EXCEPT ![c] = r.st]
           /\ trace' = [trace EXCEPT ![c] = r.tr]
           /\ order' = DispatchesNoted(c, trace[c], r.tr)
    /\ UNCHANGED <<listeners, regOps, registered, lastRegistryCall, now, lifecycleVars, pageVars,
                 pureVars, mirrorVars, fileVars>>

\* the execute of a FileAppendTransaction rejects with e
AppendReject(c, e) ==
    /\ call[c].pc = "append"
    /\ LET r == Catch(call[c],
                    Append(trace[c], Entry("appendFail", "-", "-", None, Some(e), << >>)),
                    e)
       IN  /\ call' = [call EXCEPT ![c] = r.st]
           /\ trace' = [trace EXCEPT ![c] = r.tr]
           /\ order' = DispatchesNoted(c, trace[c], r.tr)
    /\ UNCHANGED <<listeners, regOps, registered, lastRegistryCall, now, lifecycleVars, pageVars,
                 pureVars, mirrorVars, fileVars>>

\* ------------------------------------------------------ singleton lifecycle
\* HieroConfig: { network, operatorId, operatorKey }
HieroConfig(network, operatorId, operatorKey) ==
    [network |-> network, operatorId |-> operatorId, operatorKey |-> operatorKey]

\* values of the three fields of a configuration
Networks == {"mainnet", "Testnet", "hedera-previewnet", "devnet", ""}
OperatorIds == {"0.0.2", "abc", ""}
OperatorKeys == {"302e", ""}

Configs ==
    {HieroConfig(n, i, k) : n \in Networks, i \in OperatorIds, k \in OperatorKeys}

\* the optional argument of initialize
ConfigArguments == {None} \cup {Some(cfg) : cfg \in Configs}

\* String.prototype.toLowerCase on the network names above
toLowerCase(str) == IF str = "Testnet" THEN "testnet" ELSE str

\* a ?? b
Nullish(a, b) == IF a # None THEN a ELSE b

\* !value for an optional string: undefined and "" are falsy
Falsy(value) == value = None \/ value = Some("")

\* process.env: the variables resolveConfigFromEnv reads
Environment(hieroNetwork, hederaNetwork, hieroId, hederaId, hieroKey, hederaKey) ==
    [HIERO_NETWORK |-> hieroNetwork, HEDERA_NETWORK |-> hederaNetwork,
     HIERO_OPERATOR_ID |-> hieroId, HEDERA_OPERATOR_ID |-> hederaId,
     HIERO_OPERATOR_KEY |-> hieroKey, HEDERA_OPERATOR_KEY |-> hederaKey]

Environments ==
    {Environment(None, None, None, None, None, None),
     Environment(Some("Testnet"), None, Some("0.0.2"), None, Some("302e"), None),
     Environment(None, Some("mainnet"), None, Some("0.0.2"), None, Some("302e")),
     Environment(Some(""), Some("mainnet"), Some("0.0.2"), None, Some("302e"), None),
     Environment(Some("mainnet"), None, Some("abc"), None, Some("302e"), None),
     Environment(Some("mainnet"), None, Some("0.0.2"), None, None, None),
     Environment(Some("devnet"), None, Some("0.0.2"), None, Some("302e"), None)}

\* resolveConfigFromEnv(): a HieroConfig, or null when a variable is missing
resolveConfigFromEnv ==
    LET network     == Nullish(env.HIERO_NETWORK, env.HEDERA_NETWORK)
        operatorId  == Nullish(env.HIERO_OPERATOR_ID, env.HEDERA_OPERATOR_ID)
        operatorKey == Nullish(env.HIERO_OPERATOR_KEY, env.HEDERA_OPERATOR_KEY)
    IN  IF Falsy(network) \/ Falsy(operatorId) \/ Falsy(operatorKey)
        THEN None
        ELSE Some(HieroConfig(network[1], operatorId[1], operatorKey[1]))

\* new HieroError(message, { code })
ConfigurationError(code) ==
    ErrorObject("HieroError", code, "HieroContext", None, Some(code), None, None)

\* what the SDK throws when a string does not parse, or when close fails
SdkError(from) == ErrorObject("Error", from, "sdk", None, None, None, None)

\* AccountId.fromString(operatorId) returns instead of throwing
AccountIdParses(operatorId) == operatorId = "0.0.2"

\* PrivateKey.fromStringDer(operatorKey) returns instead of throwing
PrivateKeyParses(operatorKey) == operatorKey = "302e"

\* the if / else-if chain of the constructor over the lower-cased network:
\* the ledger a client is made for, or none (the else branch)
ClientForOrTestnet(network) ==
    CASE network \in {"mainnet", "hedera-mainnet"} -> Some("mainnet")
      [] network \in {"previewnet", "hedera-previewnet"} -> Some("previewnet")
      [] OTHER -> Some("testnet")

ClientFor(network) ==
    CASE network \in {"mainnet", "hedera-mainnet"} -> Some("mainnet")
      [] network \in {"testnet", "hedera-testnet"} -> Some("testnet")
      [] network \in {"previewnet", "hedera-previewnet"} -> Some("previewnet")
      [] OTHER -> None

\* a ledger client: Client.forMainnet() / forTestnet() / forPreviewnet()
Client(ledger, operator, open) ==
    [ledger |-> ledger, operator |-> operator, open |-> open]

\* private constructor(config): the exception it throws if any, the clients
\* it has constructed by then, and the object it yields otherwise
HieroContextConstructor(config) ==
    LET network == toLowerCase(config.network)
        ledger  == ClientFor(network)
    IN  IF ledger = None
        THEN [thrown |-> Some(ConfigurationError("UNSUPPORTED_NETWORK")),
              made |-> << >>, object |-> None]
        ELSE IF ~AccountIdParses(config.operatorId)
        THEN [thrown |-> Some(SdkError("AccountId.fromString")),
              made |-> << Client(ledger[1], None, TRUE) >>, object |-> None]
        ELSE IF ~PrivateKeyParses(config.operatorKey)
        THEN [thrown |-> Some(SdkError("PrivateKey.fromStringDer")),
              made |-> << Client(ledger[1], None, TRUE) >>, object |-> None]
        ELSE [thrown |-> None,
              made |-> << Client(ledger[1], Some(config.operatorId), TRUE) >>,
              object |-> Some([config |-> config, client |-> Len(clients) + 1,
                               operatorAccountId |-> config.operatorId,
                               operatorKey |-> config.operatorKey])]

\* the latest static call: its name and argument, the singleton and the
\* clients it found, and what it returned or threw
Outcome(name, argument, returned, thrown) ==
    [call |-> name, argument |-> argument, found |-> instance,
     clientsFound |-> clients, returned |-> returned, thrown |-> thrown]

\* if (HieroContext.instance) return HieroContext.instance
ReturnsNoExisting(found) == FALSE
ReturnsExisting(found) == found # None

\* HieroContext.initialize(config?)
initialize(config) ==
    /\ IF ReturnsExisting(instance)
       THEN /\ staticResult' = Outcome("initialize", config, instance, None)
            /\ UNCHANGED <<instance, clients>>
       ELSE LET resolved == Nullish(config, resolveConfigFromEnv) IN
            IF resolved = None
            THEN /\ staticResult' = Outcome("initialize", config, None,
                                       Some(ConfigurationError("MISSING_CONFIG")))
                 /\ UNCHANGED <<instance, clients>>
            ELSE LET new == HieroContextConstructor(resolved[1]) IN
                 /\ clients' = clients \o new.made
                 /\ instance' = IF new.thrown = None THEN new.object ELSE instance
                 /\ staticResult' = Outcome("initialize", config, new.object, new.thrown)
    /\ lifecycleCalls' = lifecycleCalls + 1
    /\ UNCHANGED <<env, eventVars, pageVars, pureVars, mirrorVars, fileVars>>

\* HieroContext.get()
getOrInitialize ==
    /\ IF instance = None
       THEN LET resolved == resolveConfigFromEnv
                new == HieroContextConstructor(resolved[1])
            IN  IF resolved # None /\ new.thrown = None
                THEN /\ clients' = clients \o new.made
                     /\ instance' = new.object
                     /\ staticResult' = Outcome("get", None, new.object, None)
                ELSE /\ staticResult' = Outcome("get", None, None,
                                           Some(ConfigurationError("NOT_INITIALIZED")))
                     /\ UNCHANGED <<instance, clients>>
       ELSE /\ staticResult' = Outcome("get", None, instance, None)
            /\ UNCHANGED <<instance, clients>>
    /\ lifecycleCalls' = lifecycleCalls + 1
    /\ UNCHANGED <<env, eventVars, pageVars, pureVars, mirrorVars, fileVars>>

get ==
    /\ staticResult' = IF instance = None
                  THEN Outcome("get", None, None,
                               Some(ConfigurationError("NOT_INITIALIZED")))
                  ELSE Outcome("get", None, instance, None)
    /\ lifecycleCalls' = lifecycleCalls + 1
    /\ UNCHANGED <<instance, clients, env, eventVars, pageVars, pureVars, mirrorVars, fileVars>>

\* HieroContext.reset(); client.close() belongs to the SDK and either
\* returns or throws
reset(closeThrows) ==
    /\ IF instance # None
       THEN IF closeThrows
            THEN /\ staticResult' = Outcome("reset", None, None,
                                       Some(SdkError("Client.close")))
                 /\ UNCHANGED <<instance, clients>>
            ELSE /\ clients' = [clients EXCEPT ![instance[1].client].open = FALSE]
                 /\ instance' = None
                 /\ staticResult' = Outcome("reset", None, None, None)
       ELSE /\ staticResult' = Outcome("reset", None, None, None)
            /\ UNCHANGED <<instance, clients>>
    /\ lifecycleCalls' = lifecycleCalls + 1
    /\ UNCHANGED <<env, eventVars, pageVars, pureVars, mirrorVars, fileVars>>

\* no static call made yet
InitLifecycleIdle ==
    /\ instance = None
    /\ clients = << >>
    /\ env = Environment(None, None, None, None, None, None)
    /\ lifecycleCalls = 0
    /\ staticResult = [call |-> "-", argument |-> None, found |-> None,
                  clientsFound |-> << >>, returned |-> None, thrown |-> None]

\* ------------------------------------------------------------------- pages
\* a property that may be missing (undefined), null, or a string
Absent == [kind |-> "absent", str |-> "-"]
Null == [kind |-> "null", str |-> "-"]
Str(str) == [kind |-> "string", str |-> str]

\* JSON values at the top level of a response body: an array of items, an
\* object (of which only its `next` property matters), null, or a string
JsonArray(items) == [type |-> "array", items |-> items, next |-> Absent]
JsonObject(next) == [type |-> "object", items |-> << >>, next |-> next]
JsonNull == [type |-> "null", items |-> << >>, next |-> Absent]
JsonString == [type |-> "string", items |-> << >>, next |-> Absent]

\* raw items of a page, here as the mirror node sends NFTs
RawItems == {[token_id |-> "0.0.99", serial_number |-> 1],
             [token_id |-> "0.0.99", serial_number |-> 2]}

\* a converter, as a function of the raw item: convertNft
convertNft ==
    [item \in RawItems |->
        [tokenId |-> item.token_id, serialNumber |-> item.serial_number]]

\* sequences over S of length at most n
SeqUpTo(S, n) == UNION {[1..m -> S] : m \in 0..n}

NextLinks == {Absent, Null, Str(""), Str("/api/v1/tokens?limit=1&token.id=gt:0.0.99")}

JsonValues ==
    {JsonArray(items) : items \in SeqUpTo(RawItems, MaxItems)}
        \cup {JsonObject(next) : next \in NextLinks}
        \cup {JsonNull, JsonString}

\* top-level keys; "" is a key JSON allows
Keys == {"nfts", "tokens", "links", ""}

\* response bodies: the entries of the object in the order of Object.keys
\* (insertion order for keys like these), no key twice
RawPages ==
    {r \in SeqUpTo([key : Keys, value : JsonValues], MaxKeys) :
        \A i, j \in 1..Len(r) : i # j => r[i].key # r[j].key}

\* Array.isArray(value)
IsArray(value) == value.type = "array"

\* Object.keys(raw).find((k) => k !== 'links' && Array.isArray(raw[k])):
\* the first such key from position i on, undefined when there is none
RECURSIVE FindDataKey(_, _)
FindDataKey(r, i) ==
    IF i > Len(r) THEN None
    ELSE IF r[i].key # "links" /\ IsArray(r[i].value) THEN Some(r[i].key)
    ELSE FindDataKey(r, i + 1)

\* raw[key]: the value under a key, undefined when the object has no such key
Property(r, key) ==
    IF \E i \in 1..Len(r) : r[i].key = key
    THEN Some(r[CHOOSE i \in 1..Len(r) : r[i].key = key].value)
    ELSE None

\* `dataKey ? ... : ...` on an optional string: undefined and "" are falsy
Truthy(dataKey) == dataKey # None /\ dataKey # Some("")

\* items.map(converter)
Map(items, converter) == [i \in 1..Len(items) |-> converter[items[i]]]

\* raw.links?.next: undefined when links is missing or null and when the
\* value under links has no next property
OptionalNext(r) ==
    LET links == Property(r, "links") IN
    IF links = None \/ links[1].type = "null" THEN Absent
    ELSE links[1].next

\* value ?? null
OrNullIfFalsy(value) ==
    IF value.kind \in {"absent", "null"} \/ value = Str("") THEN Null ELSE value

OrNull(value) == IF value.kind \in {"absent", "null"} THEN Null ELSE value

\* convertPage(raw, converter)
convertPage(r, converter) ==
    LET dataKey == FindDataKey(r, 1)
        items   == IF Truthy(dataKey) THEN Property(r, dataKey[1])[1].items ELSE << >>
    IN  [data |-> Map(items, converter), links |-> [next |-> OrNull(OptionalNext(r))]]

\* a response body is converted: convertPage(raw, convertNft)
ConvertPage ==
    /\ page = None
    /\ page' = Some(convertPage(raw, convertNft))
    /\ UNCHANGED <<raw, eventVars, lifecycleVars, pureVars, mirrorVars, fileVars>>

InitPageIdle ==
    /\ raw = << >>
    /\ page = None

\* no converter applied, no query made, a file of one byte at hand
InitPureIdle ==
    /\ input = None
    /\ output = None

IdleQuery ==
    [pc |-> "idle", invocation |-> 0, method |-> "-", path |-> "-",
     response |-> None, returned |-> None, thrown |-> None]

InitMirrorIdle ==
    /\ query = IdleQuery
    /\ requests = << >>

InitFileIdle == fileContents = 1

InitOthersIdle ==
    /\ InitPureIdle
    /\ InitMirrorIdle
    /\ InitFileIdle

\* -------------------------------------------------------------- converters
\* an optional array of a response: missing, null, or an array
NoArray == [kind |-> "absent", items |-> << >>]
NullArray == [kind |-> "null", items |-> << >>]
ArrayOf(items) == [kind |-> "array", items |-> items]

OptionalArrays(S, n) ==
    {NoArray, NullArray} \cup {ArrayOf(items) : items \in SeqUpTo(S, n)}

\* array ?? []
OrEmpty(array) == IF array.kind = "array" THEN array.items ELSE << >>

\* raw fees as the mirror node sends them
MirrorFixedFees ==
    {[amount |-> 100, collector_account_id |-> "0.0.1"],
     [amount |-> 5, collector_account_id |-> "0.0.2"]}

MirrorFractionalFees ==
    {[numerator |-> 1, denominator |-> 10, collector_account_id |-> "0.0.1"],
     [numerator |-> 1, denominator |-> 20, collector_account_id |-> "0.0.2"]}

MirrorRoyaltyFees ==
    {[numerator |-> 1, denominator |-> 4, fallback_fee |-> None,
      collector_account_id |-> "0.0.1"],
     [numerator |-> 1, denominator |-> 5,
      fallback_fee |-> Some([amount |-> 7, denominating_token_id |-> "0.0.9"]),
      collector_account_id |-> "0.0.2"]}

\* raw.custom_fees when it is an object
CustomFees(fixed, fractional, royalty) ==
    [kind |-> "object", fixed_fees |-> fixed, fractional_fees |-> fractional,
     royalty_fees |-> royalty]

\* raw.custom_fees when it is missing or null
NoCustomFees(kind) ==
    [kind |-> kind, fixed_fees |-> NoArray, fractional_fees |-> NoArray,
     royalty_fees |-> NoArray]

\* MirrorTokenResponse: token_id and custom_fees
RawTokens ==
    {[token_id |-> "0.0.555", custom_fees |-> cf] :
        cf \in {NoCustomFees("absent"), NoCustomFees("null")} \cup
               {CustomFees(fixed, fractional, royalty) :
                    fixed \in OptionalArrays(MirrorFixedFees, MaxFees),
                    fractional \in OptionalArrays(MirrorFractionalFees, MaxFees),
                    royalty \in OptionalArrays(MirrorRoyaltyFees, MaxFees)}}

\* customFees.push({ type: 'fixed', ... } as FixedFee)
FixedFee(f) ==
    [type |-> "fixed", amount |-> f.amount,
     collectorAccountId |-> f.collector_account_id]

\* customFees.push({ type: 'fractional', ... } as FractionalFee)
FractionalFee(f) ==
    [type |-> "fractional", numerator |-> f.numerator, denominator |-> f.denominator,
     collectorAccountId |-> f.collector_account_id]

\* customFees.push({ type: 'royalty', ... } as RoyaltyFee)
RoyaltyFee(f) ==
    [type |-> "royalty", numerator |-> f.numerator, denominator |-> f.denominator,
     fallbackFee |-> IF f.fallback_fee # None
                     THEN Some([amount |-> f.fallback_fee[1].amount,
                                denominatingTokenId |->
                                    f.fallback_fee[1].denominating_token_id])
                     ELSE None,
     collectorAccountId |-> f.collector_account_id]

\* the three for-loops of convertTokenInfo, in the order they are written
PushedRoyaltyBeforeFractional(fixed, fractional, royalty) ==
    [i \in 1..Len(fixed) |-> FixedFee(fixed[i])]
        \o [i \in 1..Len(royalty) |-> RoyaltyFee(royalty[i])]
        \o [i \in 1..Len(fractional) |-> FractionalFee(fractional[i])]

Pushed(fixed, fractional, royalty) ==
    [i \in 1..Len(fixed) |-> FixedFee(fixed[i])]
        \o [i \in 1..Len(fractional) |-> FractionalFee(fractional[i])]
        \o [i \in 1..Len(royalty) |-> RoyaltyFee(royalty[i])]

\* convertTokenInfo(raw): tokenId and customFees of the TokenInfo
convertTokenInfo(rawToken) ==
    [tokenId |-> rawToken.token_id,
     customFees |->
        IF rawToken.custom_fees.kind = "object"
        THEN Pushed(OrEmpty(rawToken.custom_fees.fixed_fees),
                    OrEmpty(rawToken.custom_fees.fractional_fees),
                    OrEmpty(rawToken.custom_fees.royalty_fees))
        ELSE << >>]

\* a token response is converted
ConvertTokenInfo ==
    /\ output = None
    /\ output' = Some(convertTokenInfo(input))
    /\ UNCHANGED <<input, eventVars, lifecycleVars, pageVars, mirrorVars, fileVars>>

\* a number or a boolean as the value of a property
Num(n) == [kind |-> "number", num |-> n]
Bool(b) == [kind |-> "boolean", bool |-> b]
\* raw.key: { key }, raw.balance: { balance, tokens }
KeyObject(key) == [kind |-> "object", key |-> key]
BalanceObject(balance) == [kind |-> "object", balance |-> balance]

\* MirrorAccountResponse: account and six of its optional fields, each
\* missing, null or set
RawAccounts ==
    [account : {"0.0.12345"},
     evm_address : {Absent, Null, Str("0x123abc")},
     key : {Absent, Null, KeyObject(Str("pubkey123"))},
     balance : {Absent, Null, BalanceObject(Num(0)), BalanceObject(Num(500000))},
     deleted : {Absent, Null, Bool(FALSE), Bool(TRUE)},
     memo : {Absent, Null, Str(""), Str("test account")},
     staked_node_id : {Absent, Null, Num(0), Num(3)}]

\* undefined or null
Nullable(value) == value.kind \in {"absent", "null"}

\* raw.field: the value of the property as it is, undefined when missing
Read(value) == value

\* raw.key?.key
OptionalKey(value) == IF Nullable(value) THEN Absent ELSE value.key

\* raw.balance?.balance
OptionalBalance(value) == IF Nullable(value) THEN Absent ELSE value.balance

\* value ?? fallback
OrElse(value, fallback) == IF Nullable(value) THEN fallback ELSE value

\* convertAccountInfo(raw)
convertAccountInfo(rawAccount) ==
    [accountId |-> rawAccount.account,
     evmAddress |-> Read(rawAccount.evm_address),
     key |-> OptionalKey(rawAccount.key),
     balance |-> OrElse(OptionalBalance(rawAccount.balance), Num(0)),
     deleted |-> OrElse(rawAccount.deleted, Bool(FALSE)),
     memo |-> Read(rawAccount.memo),
     stakedNodeId |-> Read(rawAccount.staked_node_id)]

\* an account response is converted
ConvertAccountInfo ==
    /\ output = None
    /\ output' = Some(convertAccountInfo(input))
    /\ UNCHANGED <<input, eventVars, lifecycleVars, pageVars, mirrorVars, fileVars>>

\* ----------------------------------------------------------- normalizeError
\* values a caller passes to normalizeError: Errors with and without
\* status._code, HieroErrors, and values that are no Error
ThrownValues ==
    {ErrorObject("Error", msg, "caller", statusCode, None, None, None) :
         msg \in {"std error", "sdk"}, statusCode \in {None, Some(0), Some(22), Some(404)}}
    \cup {ErrorObject("HieroError", "original", "caller", None, Some(code), context, cause) :
              code \in {"TEST", "UNKNOWN"}, context \in {None, Some("in testing")},
              cause \in {None, Some(ErrNetwork)}}
    \cup {ErrorObject("Other", value, "caller", None, None, None, None) :
              value \in {"oops", "number:42", "null:", "undefined:"}}

\* the optional context argument
Contexts == {None, Some("in testing"), Some("NftClient.createNftType")}

\* normalizeError is applied to the value, or to its latest result
Normalize(context) ==
    /\ input # None
    /\ Len(output) < MaxNormalizations
    /\ LET argument == IF output = << >> THEN input ELSE output[Len(output)].result
       IN  output' = Append(output, [context |-> context,
                                     result |-> normalizeError(argument, context)])
    /\ UNCHANGED <<input, eventVars, lifecycleVars, pageVars, mirrorVars, fileVars>>

\* -------------------------------------------------------- MirrorNodeClient
\* the query methods modelled, and fetchNextPage
Methods == {"queryAccount", "queryNftsByAccount", "queryTransaction", "fetchNextPage"}

\* the path a method passes to this.fetch; the argument of fetchNextPage is
\* the path itself
Path(method) ==
    CASE method = "queryAccount" -> "/api/v1/accounts/0.0.12345"
      [] method = "queryNftsByAccount" -> "/api/v1/accounts/0.0.12345/nfts"
      [] method = "queryTransaction" -> "/api/v1/transactions/0.0.2-1-1"
      [] method = "fetchNextPage" -> "/api/v1/tokens?limit=1&token.id=gt:0.0.99"

\* MirrorTransaction: transaction_id, name and result
MirrorTransactions ==
    [transaction_id : {"0.0.2-1-1"},
     name : {Absent, Str("CRYPTOTRANSFER"), Str("token mint")},
     result : {"SUCCESS", "INVALID_SIGNATURE"}]

\* name.toUpperCase().replace(/ /g, '')
ToUpperCaseNoSpaces(name) ==
    CASE name = "token mint" -> "TOKENMINT"
      [] OTHER -> name

\* convertTransactionInfo(raw)
convertTransactionInfo(rawTransaction) ==
    [transactionId |-> rawTransaction.transaction_id,
     type |-> IF Nullable(rawTransaction.name) THEN ""
              ELSE ToUpperCaseNoSpaces(rawTransaction.name.str),
     name |-> IF Nullable(rawTransaction.name) THEN "" ELSE rawTransaction.name.str,
     result |-> rawTransaction.result,
     successful |-> rawTransaction.result = "SUCCESS"]

\* MirrorTransactionListResponse: { transactions }
TransactionLists ==
    [transactions : OptionalArrays(MirrorTransactions, MaxItems)]

\* the body of a response: text that parses as JSON to a value, or not
Json(value) == [parses |-> TRUE, json |-> value]
NotJson == [parses |-> FALSE, json |-> << >>]

\* bodies a mirror node answers a method with
Bodies(method) ==
    CASE method = "queryAccount" ->
             {Json(r) : r \in {a \in RawAccounts :
                                  /\ a.evm_address = Absent /\ a.key = Absent
                                  /\ a.memo = Absent /\ a.staked_node_id = Absent
                                  /\ a.deleted = Bool(FALSE)}}
      [] method \in {"queryNftsByAccount", "fetchNextPage"} ->
             {Json(r) : r \in {b \in RawPages : Len(b) <= 1}}
      [] method = "queryTransaction" -> {Json(r) : r \in TransactionLists}
      [] OTHER -> {}

\* Response: status, and the body
Statuses == {200, 404, 500}
Response(status, body) == [status |-> status, body |-> body]
Responses(method) ==
    {Response(200, body) : body \in Bodies(method) \cup {NotJson}}
        \cup {Response(status, NotJson) : status \in Statuses \ {200}}

\* response.ok
Ok(response) == response.status \in 200..299

\* what the global fetch rejects with
ErrFetch == ErrorObject("Error", "fetch failed", "fetch", None, None, None, None)
FetchFailures == {ErrFetch, ThrownString}

\* what response.json() rejects with
SyntaxError ==
    ErrorObject("Error", "Unexpected token < in JSON", "response.json",
                None, None, None, None)

\* new HieroError(message, { code, context, cause })
HieroError(msg, code, context, cause) ==
    ErrorObject("HieroError", msg, "MirrorNodeClient", None, Some(code), context, cause)

\* !raw.transactions
NotAnArray(transactions) == transactions.kind # "array"
\* !raw.transactions || raw.transactions.length === 0
NoTransactions(transactions) ==
    \/ transactions.kind # "array"
    \/ Len(transactions.items) = 0

\* the statements of a method after `const raw = await this.fetch(path)`
Converted(method, json) ==
    CASE method = "queryAccount" ->
             [returned |-> Some(convertAccountInfo(json)), thrown |-> None]
      [] method \in {"queryNftsByAccount", "fetchNextPage"} ->
             [returned |-> Some(convertPage(json, convertNft)), thrown |-> None]
      [] method = "queryTransaction" ->
             IF NoTransactions(json.transactions)
             THEN [returned |-> None,
                   thrown |-> Some(HieroError("Transaction not found", "NOT_FOUND",
                                              None, None))]
             ELSE IF Len(json.transactions.items) = 0
             THEN [returned |-> None, thrown |-> Some(TypeErrorUndefined)]
             ELSE [returned |-> Some(convertTransactionInfo(json.transactions.items[1])),
                   thrown |-> None]

\* a query method is called: it runs up to `await fetch(url)`, the GET is
\* issued
Query(method) ==
    /\ query.pc \in {"idle", "done"}
    /\ query.invocation < MaxQueries
    /\ query' = [IdleQuery EXCEPT !.pc = "fetch",
                                  !.invocation = query.invocation + 1,
                                  !.method = method,
                                  !.path = Path(method)]
    /\ requests' = Append(requests, [invocation |-> query.invocation + 1,
                                     path |-> Path(method)])
    /\ UNCHANGED <<eventVars, lifecycleVars, pageVars, pureVars, fileVars>>

\* the GET is issued again after a transport failure
TransportFailsAndRetries(err) ==
    /\ query.pc = "fetch"
    /\ Len(requests) < 2 * MaxQueries
    /\ requests' = Append(requests, [invocation |-> query.invocation,
                                     path |-> query.path])
    /\ UNCHANGED <<query, eventVars, lifecycleVars, pageVars, pureVars, fileVars>>

\* fetch(url) rejects: the catch block of MirrorNodeClient.fetch
TransportFails(err) ==
    /\ query.pc = "fetch"
    /\ query' = [query EXCEPT
                   !.pc = "done",
                   !.thrown = Some(HieroError("Mirror node request failed",
                                              "MIRROR_NODE_ERROR", Some(query.path),
                                              IF InstanceOfError(err) THEN Some(err)
                                              ELSE None))]
    /\ UNCHANGED <<requests, eventVars, lifecycleVars, pageVars, pureVars, fileVars>>

\* fetch(url) resolves with a response to the GET of the method: a
\* non-success status is thrown, a success status goes on to response.json()
Responds(method, response) ==
    /\ query.pc = "fetch"
    /\ query.method = method
    /\ query' = IF Ok(response)
                THEN [query EXCEPT !.pc = "json", !.response = Some(response)]
                ELSE [query EXCEPT
                        !.pc = "done",
                        !.response = Some(response),
                        !.thrown = Some(HieroError("Mirror node returned",
                                                   "MIRROR_NODE_HTTP_ERROR",
                                                   Some(query.path), None))]
    /\ UNCHANGED <<requests, eventVars, lifecycleVars, pageVars, pureVars, fileVars>>

\* response.json() settles: its rejection leaves the method as it is, its
\* value is converted by the method
BodyRead ==
    /\ query.pc = "json"
    /\ LET body == query.response[1].body
       IN  query' = IF body.parses
                    THEN [query EXCEPT
                            !.pc = "done",
                            !.returned = Converted(query.method, body.json).returned,
                            !.thrown = Converted(query.method, body.json).thrown]
                    ELSE [query EXCEPT !.pc = "done", !.thrown = Some(SyntaxError)]
    /\ UNCHANGED <<requests, eventVars, lifecycleVars, pageVars, pureVars, fileVars>>

\* ----------------------------------------------------------- specification
\* a context that has just been initialized: no listener, no call
Init ==
    /\ listeners = << >>
    /\ regOps = 0
    /\ registered = [l \in Listeners |-> 0]
    /\ lastRegistryCall = [k |-> "-", l |-> "-", found |-> << >>]
    /\ now = 0
    /\ call = [c \in Calls |-> IdleCall]
    /\ trace = [c \in Calls |-> << >>]
    /\ order = << >>
    /\ InitLifecycleIdle
    /\ InitPageIdle
    /\ InitOthersIdle

\* the steps of the program when the callers in C issue service calls
NextOf(C) ==
    \/ regOps < MaxRegistryOps /\ \E l \in Listeners : addTransactionListener(l)
    \/ regOps < MaxRegistryOps /\ \E l \in Listeners : removeTransactionListener(l)
    \/ \E c \in C, o \in Operations : Invoke(c, o)
    \/ \E c \in C : HookResolve(c)
    \/ \E c \in C, e \in HookFailures : HookReject(c, e)
    \/ \E c \in C : Resume(c)
    \/ \E c \in C : LedgerResolve(c)
    \/ \E c \in C, e \in LedgerFailures : LedgerReject(c, e)

\* one caller, with registry calls interleaved at every await
Next == NextOf({"A"})

Spec == Init /\ [][Next]_vars

\* the registry on its own: only addTransactionListener / removeTransactionListener
NextRegistry ==
    /\ regOps < MaxRegistryOnlyOps
    /\ \/ \E l \in Listeners : addTransactionListener(l)
       \/ \E l \in Listeners : removeTransactionListener(l)

SpecRegistry == Init /\ [][NextRegistry]_vars

\* two callers issue NftClient.associateNft concurrently on a context that
\* has both listeners registered
ConcurrentOperations == {"NftClient.associateNft"}

InitConcurrent ==
    /\ listeners = << "L1", "L2" >>
    /\ regOps = 0
    /\ registered = [l \in Listeners |-> 1]
    /\ lastRegistryCall = [k |-> "add", l |-> "L2", found |-> << "L1" >>]
    /\ now = 0
    /\ call = [c \in Calls |-> IdleCall]
    /\ trace = [c \in Calls |-> << >>]
    /\ order = << >>
    /\ InitLifecycleIdle
    /\ InitPageIdle
    /\ InitOthersIdle

NextConcurrent ==
    \/ \E c \in Calls, o \in ConcurrentOperations :
            call[c].pc = "idle" /\ Invoke(c, o)
    \/ \E c \in Calls : HookResolve(c)
    \/ \E c \in Calls, e \in HookFailures : HookReject(c, e)
    \/ \E c \in Calls : Resume(c)
    \/ \E c \in Calls : LedgerResolve(c)
    \/ \E c \in Calls : LedgerReject(c, ErrNetwork)

SpecConcurrent == InitConcurrent /\ [][NextConcurrent]_vars

\* one caller issues calls while the clock advances, on a context that has
\* both listeners registered
TimedOperations == {"NftClient.createNftType", "FileClient.createFile"}

InitTimed == InitConcurrent

NextTimed ==
    \/ Tick
    \/ \E o \in TimedOperations : Invoke("A", o)
    \/ HookResolve("A")
    \/ \E e \in HookFailures : HookReject("A", e)
    \/ Resume("A")
    \/ LedgerResolve("A")
    \/ \E e \in LedgerFailures : LedgerReject("A", e)

SpecTimed == InitTimed /\ [][NextTimed]_vars

\* the static calls of HieroContext in a process whose environment is any
\* of Environments; no listener is registered and no service call is issued
InitLifecycle ==
    /\ listeners = << >>
    /\ regOps = 0
    /\ registered = [l \in Listeners |-> 0]
    /\ lastRegistryCall = [k |-> "-", l |-> "-", found |-> << >>]
    /\ now = 0
    /\ call = [c \in Calls |-> IdleCall]
    /\ trace = [c \in Calls |-> << >>]
    /\ order = << >>
    /\ instance = None
    /\ clients = << >>
    /\ env \in Environments
    /\ lifecycleCalls = 0
    /\ staticResult = [call |-> "-", argument |-> None, found |-> None,
                       clientsFound |-> << >>, returned |-> None, thrown |-> None]
    /\ InitPageIdle
    /\ InitOthersIdle

NextLifecycle ==
    \/ lifecycleCalls < MaxLifecycleCalls /\ \E config \in ConfigArguments : initialize(config)
    \/ lifecycleCalls < MaxLifecycleCalls /\ get
    \/ lifecycleCalls < MaxLifecycleCalls /\ \E closeThrows \in BOOLEAN : reset(closeThrows)

SpecLifecycle == InitLifecycle /\ [][NextLifecycle]_vars

\* a response body of any shape is converted
InitPages ==
    /\ listeners = << >>
    /\ regOps = 0
    /\ registered = [l \in Listeners |-> 0]
    /\ lastRegistryCall = [k |-> "-", l |-> "-", found |-> << >>]
    /\ now = 0
    /\ call = [c \in Calls |-> IdleCall]
    /\ trace = [c \in Calls |-> << >>]
    /\ order = << >>
    /\ InitLifecycleIdle
    /\ raw \in RawPages
    /\ page = None
    /\ InitOthersIdle

NextPages == ConvertPage

SpecPages == InitPages /\ [][NextPages]_vars

\* everything but the argument of a converter is as in Init
InitButInput ==
    /\ listeners = << >>
    /\ regOps = 0
    /\ registered = [l \in Listeners |-> 0]
    /\ lastRegistryCall = [k |-> "-", l |-> "-", found |-> << >>]
    /\ now = 0
    /\ call = [c \in Calls |-> IdleCall]
    /\ trace = [c \in Calls |-> << >>]
    /\ order = << >>
    /\ InitLifecycleIdle
    /\ InitPageIdle
    /\ InitMirrorIdle
    /\ InitFileIdle
    /\ output = None

\* a token response of any shape is converted
InitTokens == InitButInput /\ input \in RawTokens

NextTokens == ConvertTokenInfo

SpecTokens == InitTokens /\ [][NextTokens]_vars

\* query methods of one MirrorNodeClient, each awaited before the next
InitMirror == InitButInput /\ input = None

NextMirror ==
    \/ \E method \in Methods : Query(method)
    \/ \E err \in FetchFailures : TransportFails(err)
    \/ \E method \in Methods : \E response \in Responses(method) :
           Responds(method, response)
    \/ BodyRead

SpecMirror == InitMirror /\ [][NextMirror]_vars

\* normalizeError applied to a thrown value and again to its results
InitNormalize == InitButInput /\ input \in ThrownValues

NextNormalize == \E context \in Contexts : Normalize(context)

SpecNormalize == InitNormalize /\ [][NextNormalize]_vars

\* one createFile call on a context with listener L1 registered, for
\* contents of a length around the multiples of the chunk size
FileLengths ==
    {n \in {k * MAX_CHUNK_SIZE + d : k \in 0..MaxChunks, d \in {-1, 0, 1}} : n >= 0}

InitFile ==
    /\ listeners = << "L1" >>
    /\ regOps = 0
    /\ registered = [l \in Listeners |-> IF l = "L1" THEN 1 ELSE 0]
    /\ lastRegistryCall = [k |-> "add", l |-> "L1", found |-> << >>]
    /\ now = 0
    /\ call = [c \in Calls |-> IdleCall]
    /\ trace = [c \in Calls |-> << >>]
    /\ order = << >>
    /\ InitLifecycleIdle
    /\ InitPageIdle
    /\ InitPureIdle
    /\ InitMirrorIdle
    /\ fileContents \in FileLengths

NextFile ==
    \/ call["A"].pc = "idle" /\ Invoke("A", "FileClient.createFile")
    \/ HookResolve("A")
    \/ \E e \in HookFailures : HookReject("A", e)
    \/ Resume("A")
    \/ LedgerResolve("A")
    \/ LedgerReject("A", ErrNetwork)
    \/ AppendResolve("A")
    \/ AppendReject("A", ErrNetwork)

SpecFile == InitFile /\ [][NextFile]_vars

\* an account response of any shape is converted
InitAccounts == InitButInput /\ input \in RawAccounts

NextAccounts == ConvertAccountInfo

SpecAccounts == InitAccounts /\ [][NextAccounts]_vars

\* ------------------------------------------------- reading a call's trace
Range(seq) == {seq[i] : i \in 1..Len(seq)}
Occurrences(seq, x) == Cardinality({i \in 1..Len(seq) : seq[i] = x})

\* the service methods written with the event-emitting template
EventEmittingOperations == {"NftClient.createNftType", "FileClient.createFile"}

\* positions of the emitBeforeTransaction / emitAfterTransaction invocations
EmitPositions(tr, phase) ==
    {i \in 1..Len(tr) : tr[i].k = "emit" /\ HookPhase(tr[i].site) = phase}

Has(tr, k) == \E i \in 1..Len(tr) : tr[i].k = k

Finished(c) == call[c].pc = "done"

\* the listeners whose hook the dispatch at `site` has invoked, in order
Begun(tr, site) ==
    LET bs == SelectSeq(tr, LAMBDA x : x.k = "begin" /\ x.site = site)
    IN  [j \in 1..Len(bs) |-> bs[j].l]

\* ------------------------------------------------------------------ claims

\* C1: for every call of an event-emitting service operation whose
\* before-dispatch completed (the transaction was submitted),
\* emitAfterTransaction is invoked exactly once, whether the ledger
\* operation succeeded or failed.
C1_AfterEmittedExactlyOnce ==
    \A c \in Calls :
        (/\ Finished(c)
         /\ call[c].op \in EventEmittingOperations
         /\ Has(trace[c], "submit"))
        => Cardinality(EmitPositions(trace[c], "after")) = 1

\* C2: if a listener hook raises during a dispatch, that same exception
\* reaches the caller of the service operation, and no listener hook is
\* invoked for that phase of that call after the raising hook.
C2_HookExceptionReachesCaller ==
    \A c \in Calls :
        Finished(c) =>
            \A i \in 1..Len(trace[c]) :
                trace[c][i].k = "throw" =>
                    /\ call[c].result = Some(Rejected(trace[c][i].err[1]))
                    /\ \A j \in (i + 1)..Len(trace[c]) :
                          ~(/\ trace[c][j].k = "begin"
                            /\ HookPhase(trace[c][j].site) = HookPhase(trace[c][i].site))

\* C3: every ledger-mutating service operation dispatches a before-event
\* (without transactionId) and then an after-event (with transactionId and
\* status on success, with error on failure) through the context.
C3_EveryOperationDispatches ==
    \A c \in Calls :
        (Finished(c) /\ (Has(trace[c], "ledgerOk") \/ Has(trace[c], "ledgerFail"))) =>
            \E i \in EmitPositions(trace[c], "before") :
            \E j \in EmitPositions(trace[c], "after") :
                /\ i < j
                /\ trace[c][i].ev[1].transactionId = None
                /\ Has(trace[c], "ledgerOk") =>
                      /\ trace[c][j].ev[1].transactionId # None
                      /\ trace[c][j].ev[1].status # None
                /\ Has(trace[c], "ledgerFail") => trace[c][j].ev[1].error # None

\* whether a registry call was made while the dispatch at `site` was
\* suspended at a hook
Disturbed(tr, site) ==
    \E i \in 1..Len(tr) : tr[i].k \in {"add", "remove"} /\ tr[i].site = site

IsPrefix(p, q) == Len(p) <= Len(q) /\ \A i \in 1..Len(p) : p[i] = q[i]

\* the dispatch at `site` is over and no hook of it raised
CompletedNormally(c, site) ==
    /\ call[c].pc # site
    /\ ~\E i \in 1..Len(trace[c]) : trace[c][i].k = "throw" /\ trace[c][i].site = site

\* C4: within one dispatch, listeners are invoked in registration order and
\* strictly sequentially: a hook has settled before the next hook begins, and
\* listeners that do not define the hook are skipped.
C4_SequentialInRegistrationOrder ==
    \A c \in Calls :
        LET tr == trace[c] IN
        /\ \A i, j \in 1..Len(tr) :
              (i < j /\ tr[i].k = "begin" /\ tr[j].k = "begin") =>
                  \E m \in (i + 1)..(j - 1) :
                      tr[m].k \in {"end", "throw"} /\ tr[m].l = tr[i].l
        /\ \A e \in 1..Len(tr) :
              (tr[e].k = "emit" /\ ~Disturbed(tr, tr[e].site)) =>
                  LET expected == SelectSeq(tr[e].reg,
                                    LAMBDA l : DefinesHook(l, HookPhase(tr[e].site)))
                  IN  /\ IsPrefix(Begun(tr, tr[e].site), expected)
                      /\ CompletedNormally(c, tr[e].site) =>
                            Begun(tr, tr[e].site) = expected

\* a before-dispatch over <<L1, L2>> invoked L1 then L2, and the after-dispatch
\* of the same call over a registry holding L2 skipped it
C4_Witness ==
    \E c \in Calls : \E e1, e2 \in 1..Len(trace[c]) :
        /\ trace[c][e1].k = "emit" /\ trace[c][e1].site = "before"
        /\ trace[c][e1].reg = <<"L1", "L2">>
        /\ ~Disturbed(trace[c], "before")
        /\ Begun(trace[c], "before") = <<"L1", "L2">>
        /\ trace[c][e2].k = "emit" /\ trace[c][e2].site = "afterTry"
        /\ trace[c][e2].reg = <<"L1", "L2">>
        /\ ~Disturbed(trace[c], "afterTry")
        /\ Begun(trace[c], "afterTry") = <<"L1">>
        /\ Finished(c)

\* the stage of the call an entry of its trace belongs to
StageOfEntry(x) ==
    CASE x.site = "before" -> 1
      [] x.k \in {"submit", "ledgerOk", "ledgerFail"} -> 2
      [] x.site \in {"afterTry", "afterCatch"} -> 3
      [] OTHER -> 0

StageOfPc(pc) ==
    CASE pc = "idle" -> 0
      [] pc \in {"before", "beforeRet"} -> 1
      [] pc = "exec" -> 2
      [] pc \in {"afterTry", "afterTryRet", "afterCatch", "afterCatchRet"} -> 3
      [] pc = "done" -> 4

IsRegistryNote(x) == x.k \in {"add", "remove"}

\* C5: for every event-emitting service call, emitBeforeTransaction is invoked
\* exactly once, first of all, and every before-hook has settled before the
\* transaction is submitted; the call only moves forward through
\* before-emitted, executing, after-emitted.
C5_BeforeOnceThenForward ==
    \A c \in Calls :
        (call[c].op \in EventEmittingOperations) =>
            LET tr == trace[c] IN
            /\ Cardinality(EmitPositions(tr, "before")) = 1
            /\ tr[1].k = "emit" /\ tr[1].site = "before"
            /\ \A i, j \in 1..Len(tr) :
                  (i < j /\ ~IsRegistryNote(tr[i]) /\ ~IsRegistryNote(tr[j])) =>
                      StageOfEntry(tr[i]) <= StageOfEntry(tr[j])
            /\ \A i \in 1..Len(tr) :
                  ~IsRegistryNote(tr[i]) => StageOfEntry(tr[i]) <= StageOfPc(call[c].pc)
            /\ call[c].pc \notin DispatchSites => call[c].inflight = << >>

\* a finished call that ran a before-hook, submitted, and dispatched after
C5_Witness ==
    \E c \in Calls :
        /\ Finished(c)
        /\ call[c].op \in EventEmittingOperations
        /\ Begun(trace[c], "before") # << >>
        /\ Has(trace[c], "submit")
        /\ EmitPositions(trace[c], "after") # {}

\* C6: every after-event passed to emitAfterTransaction carries durationMs and
\* exactly one of status or error: status without error when the ledger
\* operation succeeded, error without status when it failed.
C6_AfterEventStatusXorError ==
    \A c \in Calls :
        \A i \in EmitPositions(trace[c], "after") :
            LET ev == trace[c][i].ev[1] IN
            /\ ev.durationMs # None
            /\ Has(trace[c], "ledgerOk") => (ev.status # None /\ ev.error = None)
            /\ Has(trace[c], "ledgerFail") => (ev.error # None /\ ev.status = None)

\* the value the ledger operation of the call failed with
LedgerFailureOf(tr) ==
    LET fs == SelectSeq(tr, LAMBDA x : x.k = "ledgerFail") IN fs[1].err[1]

\* C7 as stated: when the ledger operation fails with a thrown value e, the
\* after-event's error field is e itself, for any thrown value, and the event
\* has neither status nor transactionId.
C7_ErrorIsOriginalForAnyValue ==
    \A c \in Calls :
        Has(trace[c], "ledgerFail") =>
            \A i \in EmitPositions(trace[c], "after") :
                LET ev == trace[c][i].ev[1] IN
                /\ ev.error = Some(LedgerFailureOf(trace[c]))
                /\ ev.status = None
                /\ ev.transactionId = None

\* C7 amended: when the ledger operation fails with a thrown value e, the
\* after-event's error field is e itself when e is an Error instance, and a
\* newly constructed Error whose message is String(e) otherwise; the event has
\* neither status nor transactionId; the caller receives the HieroError that
\* normalizes e unless an after-hook raised.
C7_ErrorIsOriginalOrNewError ==
    \A c \in Calls :
        Has(trace[c], "ledgerFail") =>
            LET e == LedgerFailureOf(trace[c]) IN
            /\ \A i \in EmitPositions(trace[c], "after") :
                  LET ev == trace[c][i].ev[1] IN
                  /\ ev.error # None
                  /\ e.kind \in {"Error", "HieroError"} => ev.error[1] = e
                  /\ e.kind \notin {"Error", "HieroError"} =>
                        /\ ev.error[1] # e
                        /\ ev.error[1].kind = "Error"
                        /\ ev.error[1].msg = e.msg
                        /\ ev.error[1].origin = "new Error"
                  /\ ev.status = None
                  /\ ev.transactionId = None
            /\ (Finished(c) /\ ~Has(trace[c], "throw")) =>
                  /\ call[c].result # None
                  /\ ~call[c].result[1].ok
                  /\ call[c].result[1].err[1].kind = "HieroError"
                  /\ call[c].result[1].err[1].msg = e.msg
                  /\ e.kind = "Error" => call[c].result[1].err[1].cause = Some(e)

\* a finished call whose ledger operation threw a non-Error value and whose
\* after-event was delivered to a listener
C7_Witness ==
    \E c \in Calls :
        /\ Finished(c)
        /\ Has(trace[c], "ledgerFail")
        /\ LedgerFailureOf(trace[c]) = ThrownString
        /\ Begun(trace[c], "afterCatch") # << >>

\* the entries a step appends to the trace of a caller's call
Invoked(c) == call[c].pc \in {"idle", "done"} /\ call'[c].pc \notin {"idle", "done"}
NewEntries(c) ==
    IF Invoked(c) THEN trace'[c]
    ELSE SubSeq(trace'[c], Len(trace[c]) + 1, Len(trace'[c]))

\* the step ends the dispatch at `site` without an exception
DispatchEnds(c, site) ==
    /\ call[c].pc # ReturnSite(site)
    /\ call'[c].pc = ReturnSite(site)
    /\ call'[c].settle = None

\* C8: after removeTransactionListener(L) has returned, L having been
\* registered once, no hook of L is invoked (as long as L holds no
\* registration), while every registered listener that defines the hook still
\* observes the event of a dispatch, once per registration.
C8_NoHookWithoutRegistration ==
    [][\A c \in Calls :
          /\ \A i \in 1..Len(NewEntries(c)) :
                NewEntries(c)[i].k = "begin" => registered[NewEntries(c)[i].l] > 0
          /\ \A site \in DispatchSites :
                (DispatchEnds(c, site) /\ ~Disturbed(trace'[c], site)) =>
                    \A l \in Listeners :
                        Occurrences(Begun(trace'[c], site), l) =
                            IF DefinesHook(l, HookPhase(site)) THEN registered[l] ELSE 0
      ]_vars

\* L1 and L2 were registered in that order, L1 was removed, and the
\* before-dispatch started afterwards was observed by L2 only
C8_Witness ==
    /\ lastRegistryCall = [k |-> "remove", l |-> "L1", found |-> <<"L1", "L2">>]
    /\ \E c \in Calls :
          /\ call[c].pc \notin {"idle", "before"}
          /\ trace[c][1].k = "emit" /\ trace[c][1].site = "before"
          /\ trace[c][1].reg = <<"L2">>
          /\ Begun(trace[c], "before") = <<"L2">>

\* C9: the registry is an insertion-ordered sequence: add appends at the end
\* (also when the listener is already registered), remove deletes only the
\* first identity-equal occurrence and keeps the order of all other entries,
\* and removing an unregistered listener leaves the registry unchanged.
C9_RegistryInsertionOrdered ==
    LET f == lastRegistryCall.found
        l == lastRegistryCall.l
    IN  /\ lastRegistryCall.k = "add" =>
              /\ Len(listeners) = Len(f) + 1
              /\ listeners[Len(listeners)] = l
              /\ \A i \in 1..Len(f) : listeners[i] = f[i]
        /\ (lastRegistryCall.k = "remove" /\ l \notin Range(f)) => listeners = f
        /\ (lastRegistryCall.k = "remove" /\ l \in Range(f)) =>
              LET first == CHOOSE i \in 1..Len(f) :
                              f[i] = l /\ \A j \in 1..(i - 1) : f[j] # l
              IN  listeners = SubSeq(f, 1, first - 1) \o SubSeq(f, first + 1, Len(f))
        /\ \A x \in Listeners : Occurrences(listeners, x) = registered[x]

\* L1 was registered twice with L2 in between, and one removal of L1 left
\* <<L2, L1>>
C9_Witness ==
    /\ lastRegistryCall = [k |-> "remove", l |-> "L1", found |-> <<"L1", "L2", "L1">>]
    /\ listeners = <<"L2", "L1">>

\* whether the hook of the listener removed at position i of the trace is
\* invoked later without the listener having been added again
InvokedAfterRemoval(tr, i) ==
    \E j \in (i + 1)..Len(tr) :
        /\ tr[j].k = "begin" /\ tr[j].l = tr[i].l
        /\ ~\E m \in (i + 1)..(j - 1) : tr[m].k = "add" /\ tr[m].l = tr[i].l

RemovalDuringDispatch(tr, i) ==
    /\ tr[i].k = "remove"
    /\ tr[i].site \in DispatchSites
    /\ tr[i].l \in Range(tr[i].reg)

\* C10 as stated: when a listener is removed while a dispatch is in flight,
\* the dispatch does not raise because of the removal, and the removed
\* listener's hook is not invoked at any point after the removal.
C10_RemovedNeverInvokedAgain ==
    \A c \in Calls :
        /\ call[c].settle # Some(TypeErrorUndefined)
        /\ \A i \in 1..Len(trace[c]) :
              RemovalDuringDispatch(trace[c], i) => ~InvokedAfterRemoval(trace[c], i)

\* C10 amended: when a listener is removed while a dispatch is in flight, the
\* dispatch does not raise because of the removal, and, provided the removal
\* took the listener's only registration, its hook is not invoked at any point
\* after the removal (until it is registered again).
C10_SoleRegistrationRemovedNeverInvoked ==
    \A c \in Calls :
        /\ call[c].settle # Some(TypeErrorUndefined)
        /\ \A i \in 1..Len(trace[c]) :
              (/\ RemovalDuringDispatch(trace[c], i)
               /\ Occurrences(trace[c][i].reg, trace[c][i].l) = 1)
              => ~InvokedAfterRemoval(trace[c], i)

\* a listener was removed while its own before-hook was running, it held one
\* registration, and the call went on to finish
C10_Witness ==
    \E c \in Calls : \E i \in 2..Len(trace[c]) :
        /\ RemovalDuringDispatch(trace[c], i)
        /\ Occurrences(trace[c][i].reg, trace[c][i].l) = 1
        /\ trace[c][i - 1].k = "begin" /\ trace[c][i - 1].l = trace[c][i].l
        /\ Has(trace[c], "end")
        /\ Finished(c)

\* ------------------------------------------------------------------ C11
\* positions of the dispatches of caller c at the given sites, in `order`
PositionsIn(c, sites) ==
    {p \in 1..Len(order) : order[p].c = c /\ order[p].site \in sites}

\* number of entries of kind k for site among the first n entries of tr
CountUpTo(tr, n, k, site) ==
    Cardinality({j \in 1..n : tr[j].k = k /\ tr[j].site = site})

\* C11: with two calls in flight on one context, when a call begins an
\* after-dispatch its own before-dispatch is over: it was begun earlier (in
\* the call's trace and in the global order of dispatches), every before-hook
\* it invoked has returned, the ledger call was submitted in between, and no
\* before-hook of that call begins or ends from then on.
C11_OwnBeforeCompletesBeforeAfter ==
    \A c \in Calls :
        LET tr == trace[c] IN
        \A i \in 1..Len(tr) :
            (tr[i].k = "emit" /\ tr[i].site # "before") =>
                /\ \E j \in 1..(i - 1) : tr[j].k = "emit" /\ tr[j].site = "before"
                /\ CountUpTo(tr, i, "begin", "before") = CountUpTo(tr, i, "end", "before")
                /\ CountUpTo(tr, i, "throw", "before") = 0
                /\ \E j \in 1..(i - 1) : tr[j].k = "submit"
                /\ \A j \in i..Len(tr) : tr[j].site # "before"
                /\ \A p \in PositionsIn(c, {"before"}) :
                       \A q \in PositionsIn(c, {"afterTry", "afterCatch"}) : p < q

\* both calls are in flight at once: B's before-dispatch began between A's
\* before-dispatch and A's after-dispatch, and B's after-dispatch after A's
C11_Witness ==
    /\ Len(order) >= 4
    /\ order[1] = [c |-> "A", site |-> "before"]
    /\ order[2] = [c |-> "B", site |-> "before"]
    /\ order[3].c = "A" /\ order[3].site # "before"
    /\ order[4].c = "B" /\ order[4].site # "before"
    /\ call["B"].inflight # << >>

\* the other order of the same two events: A's after-dispatch began before
\* B's before-dispatch
C11_AfterOfOneThenBeforeOfOther ==
    /\ Len(order) >= 3
    /\ order[2].c = "A" /\ order[2].site # "before"
    /\ order[3] = [c |-> "B", site |-> "before"]

\* ------------------------------------------------------------------ C12
\* the entries of tr that begin an after-dispatch
AfterEmits(tr) == {i \in 1..Len(tr) : tr[i].k = "emit" /\ tr[i].site # "before"}

\* the entry of tr that begins the before-dispatch
BeforeEmit(tr) == CHOOSE i \in 1..Len(tr) : tr[i].k = "emit" /\ tr[i].site = "before"

\* the entry of tr made when the method went on after the before-dispatch
SubmitEntry(tr) == CHOOSE i \in 1..Len(tr) : tr[i].k = "submit"

Called(name) == staticResult.call = name

\* the configuration the latest initialize call resolved: its argument, else
\* what the environment gives
ResolvedByCall == Nullish(staticResult.argument, resolveConfigFromEnv)

\* C13: an initialize call that finds an instance returns that very
\* instance and throws nothing, whatever its argument; the singleton and the
\* clients constructed so far are as the call found them; and at any time
\* the stored instance still has the configuration it was constructed from,
\* with a client for that configuration's network and operator.
C13_InitializeIdempotent ==
    /\ (Called("initialize") /\ staticResult.found # None) =>
           /\ staticResult.returned = staticResult.found
           /\ staticResult.thrown = None
           /\ instance = staticResult.found
           /\ clients = staticResult.clientsFound
    /\ instance # None =>
           LET this == instance[1] IN
           /\ this.client \in 1..Len(clients)
           /\ Some(clients[this.client].ledger) = ClientFor(toLowerCase(this.config.network))
           /\ clients[this.client].operator = Some(this.config.operatorId)
           /\ this.operatorAccountId = this.config.operatorId
           /\ this.operatorKey = this.config.operatorKey

\* a second initialize with a usable configuration for another network
C13_Witness ==
    /\ Called("initialize")
    /\ staticResult.found # None
    /\ staticResult.argument # None
    /\ staticResult.argument[1].network = "mainnet"
    /\ staticResult.found[1].config.network = "hedera-previewnet"
    /\ AccountIdParses(staticResult.argument[1].operatorId)
    /\ PrivateKeyParses(staticResult.argument[1].operatorKey)

\* ------------------------------------------------------------------ C14
\* C14: after every reset call there is no singleton (get fails with
\* NOT_INITIALIZED), also when closing the client fails; the client of the
\* instance the call found is closed unless closing it failed; a reset that
\* finds no instance leaves every client as it was.
C14_ResetDropsSingleton ==
    Called("reset") =>
        /\ instance = None
        /\ (staticResult.found # None /\ staticResult.thrown = None) =>
               ~clients[staticResult.found[1].client].open
        /\ staticResult.found = None =>
               clients = staticResult.clientsFound /\ staticResult.thrown = None

\* ------------------------------------------------------------------ C15
\* C15: a get call returns the stored instance when there is one and throws
\* the HieroError with code NOT_INITIALIZED otherwise; either way the
\* singleton and the clients are as the call found them.
C15_GetNeverInitializes ==
    Called("get") =>
        /\ instance = staticResult.found
        /\ clients = staticResult.clientsFound
        /\ staticResult.found # None =>
               staticResult.returned = staticResult.found /\ staticResult.thrown = None
        /\ staticResult.found = None =>
               /\ staticResult.returned = None
               /\ staticResult.thrown # None
               /\ staticResult.thrown[1].kind = "HieroError"
               /\ staticResult.thrown[1].code = Some("NOT_INITIALIZED")

\* get fails although the environment holds a complete, usable configuration
C15_Witness ==
    /\ Called("get")
    /\ staticResult.thrown # None
    /\ resolveConfigFromEnv # None
    /\ HieroContextConstructor(resolveConfigFromEnv[1]).thrown = None

\* ------------------------------------------------------------------ C16
\* the ledger a network name stands for: main, test or preview, with or
\* without the hedera- prefix, in any letter case
LedgerNamed(network) ==
    CASE toLowerCase(network) \in {"mainnet", "hedera-mainnet"} -> "mainnet"
      [] toLowerCase(network) \in {"testnet", "hedera-testnet"} -> "testnet"
      [] toLowerCase(network) \in {"previewnet", "hedera-previewnet"} -> "previewnet"
      [] OTHER -> "-"

\* the clients the latest static call constructed
ClientsMade ==
    SubSeq(clients, Len(staticResult.clientsFound) + 1, Len(clients))

Usable(config) ==
    /\ LedgerNamed(config.network) # "-"
    /\ AccountIdParses(config.operatorId)
    /\ PrivateKeyParses(config.operatorKey)

ConfigurationCodes == {"MISSING_CONFIG", "UNSUPPORTED_NETWORK", "INVALID_CONFIG"}

\* C17: an initialize call that finds no instance, and whose argument and
\* environment give no usable network, operator id and operator key, throws
\* a HieroError with a configuration code and stores no singleton.
C17_UnusableConfigurationIsConfigurationError ==
    (/\ Called("initialize")
     /\ staticResult.found = None
     /\ (ResolvedByCall = None \/ ~Usable(ResolvedByCall[1]))) =>
        /\ instance = None
        /\ staticResult.thrown # None
        /\ staticResult.thrown[1].kind = "HieroError"
        /\ staticResult.thrown[1].code # None
        /\ staticResult.thrown[1].code[1] \in ConfigurationCodes

\* ------------------------------------------------------------------ C18
\* positions of the top-level entries other than `links` that hold an array
ArrayEntries(r) ==
    {i \in 1..Len(r) : r[i].key # "links" /\ r[i].value.type = "array"}

\* C18: when exactly one top-level key other than `links` holds an array,
\* the data of the page is as long as that array and its i-th element is the
\* converter applied to the i-th element of the array.
C18_DataMirrorsTheOnlyArray ==
    (page # None /\ Cardinality(ArrayEntries(raw)) = 1) =>
        LET array == raw[CHOOSE i \in ArrayEntries(raw) : TRUE].value.items
            data  == page[1].data
        IN  /\ Len(data) = Len(array)
            /\ \A i \in 1..Len(array) : data[i] = convertNft[array[i]]

\* ------------------------------------------------------------------ C19
\* C19: the data of the page is converted from the array under the first
\* top-level key, in key order, that is not `links` and holds an array (an
\* array under `links` and arrays under later keys play no part); when there
\* is no such key the data is empty.
C19_FirstArrayKeyIsTheSource ==
    page # None =>
        IF ArrayEntries(raw) = {}
        THEN page[1].data = << >>
        ELSE LET first == CHOOSE i \in ArrayEntries(raw) :
                              \A j \in ArrayEntries(raw) : i <= j
                 array == raw[first].value.items
             IN  page[1].data = [i \in 1..Len(array) |-> convertNft[array[i]]]

\* ------------------------------------------------------------------ C20
\* the entries of r under the key `links` whose value has a next property
\* that is a string
NextLinkEntries(r) ==
    {i \in 1..Len(r) : r[i].key = "links" /\ r[i].value.next.kind = "string"}

\* C20: the next link of the page is null exactly when the response has no
\* `links`, or its `links` has no next or a null next; otherwise it is the
\* next of `links`, unchanged.
C20_NextAbsentIffNoLink ==
    page # None =>
        /\ page[1].links.next = Null <=> NextLinkEntries(raw) = {}
        /\ \A i \in NextLinkEntries(raw) : page[1].links.next = raw[i].value.next

\* a response with items and a next link
C20_Witness ==
    /\ page # None
    /\ \E i \in NextLinkEntries(raw) :
           /\ raw[i].value.next.str # ""
           /\ page[1].links.next = raw[i].value.next
    /\ page[1].data # << >>

\* ------------------------------------------------------------------ C21
\* C21: the next link of every page is null (absent) or a path that can be
\* fetched; the empty string never comes out as a link.
C21_NextIsPathOrAbsent ==
    page # None =>
        \/ page[1].links.next = Null
        \/ page[1].links.next.kind = "string" /\ page[1].links.next.str # ""

\* ------------------------------------------------------------------ C22
\* the fees of the three source arrays of the converted token response
FixedOf(rawToken) == OrEmpty(rawToken.custom_fees.fixed_fees)
FractionalOf(rawToken) == OrEmpty(rawToken.custom_fees.fractional_fees)
RoyaltyOf(rawToken) == OrEmpty(rawToken.custom_fees.royalty_fees)

\* C22: customFees holds one entry per fee of fixed_fees, then one per fee
\* of fractional_fees, then one per fee of royalty_fees, each tagged with its
\* variant, carrying the values of its source fee and in the order of its
\* source array; a missing or null source array (or custom_fees) gives none.
C22_FeesFlattenedInOrder ==
    output # None =>
        LET fees == output[1].customFees
            nFixed == Len(FixedOf(input))
            nFractional == Len(FractionalOf(input))
            nRoyalty == Len(RoyaltyOf(input))
        IN  /\ Len(fees) = nFixed + nFractional + nRoyalty
            /\ \A i \in 1..nFixed :
                   /\ fees[i].type = "fixed"
                   /\ fees[i].amount = FixedOf(input)[i].amount
                   /\ fees[i].collectorAccountId = FixedOf(input)[i].collector_account_id
            /\ \A i \in 1..nFractional :
                   /\ fees[nFixed + i].type = "fractional"
                   /\ fees[nFixed + i].denominator = FractionalOf(input)[i].denominator
                   /\ fees[nFixed + i].collectorAccountId =
                          FractionalOf(input)[i].collector_account_id
            /\ \A i \in 1..nRoyalty :
                   /\ fees[nFixed + nFractional + i].type = "royalty"
                   /\ fees[nFixed + nFractional + i].denominator =
                          RoyaltyOf(input)[i].denominator
                   /\ fees[nFixed + nFractional + i].collectorAccountId =
                          RoyaltyOf(input)[i].collector_account_id

\* one fixed fee, two different fractional fees and one royalty fee
C22_Witness ==
    /\ output # None
    /\ Len(FixedOf(input)) = 1
    /\ Len(FractionalOf(input)) = 2
    /\ FractionalOf(input)[1] # FractionalOf(input)[2]
    /\ Len(RoyaltyOf(input)) = 1
    /\ Len(output[1].customFees) = 4

\* ------------------------------------------------------------------ C26
\* the optional upstream fields a converted value is read from, as pairs of
\* the upstream value and the field of the AccountInfo made from it
ConvertedFields ==
    {<<input.evm_address, output[1].evmAddress>>,
     <<IF Nullable(input.key) THEN input.key ELSE input.key.key, output[1].key>>,
     <<IF Nullable(input.balance) THEN input.balance ELSE input.balance.balance,
       output[1].balance>>,
     <<input.deleted, output[1].deleted>>,
     <<input.memo, output[1].memo>>,
     <<input.staked_node_id, output[1].stakedNodeId>>}

\* C26 as stated: every optional upstream field that is missing comes out
\* absent, no field comes out null, zero or false unless upstream it is set
\* to that very value, and every set field is copied unchanged.
C26_UnsetFieldsComeOutAbsent ==
    output # None =>
        /\ output[1].accountId = input.account
        /\ \A f \in ConvertedFields :
               /\ f[1] = Absent => f[2] = Absent
               /\ f[2] \in {Null, Num(0), Bool(FALSE)} => f[2] = f[1]
               /\ ~Nullable(f[1]) => f[2] = f[1]

\* ------------------------------------------------------------------ C23
\* how a finished query failed: the GET did not complete, the status was
\* no success, or the transactions list was empty or missing
TransportFailure == query.thrown # None /\ query.response = None
ProtocolFailure ==
    /\ query.thrown # None
    /\ query.response # None
    /\ \/ ~Ok(query.response[1])
       \/ /\ query.method = "queryTransaction"
          /\ query.response[1].body.parses
          /\ NoTransactions(query.response[1].body.json.transactions)

\* C23: whatever a query method throws is a HieroError that carries the
\* request path and a code; the code of a transport failure differs from the
\* codes of the protocol failures.
C23_EveryFailureIsHieroErrorWithPath ==
    (query.pc = "done" /\ query.thrown # None) =>
        /\ query.thrown[1].kind = "HieroError"
        /\ query.thrown[1].context = Some(query.path)
        /\ query.thrown[1].code # None
        /\ TransportFailure <=> query.thrown[1].code = Some("MIRROR_NODE_ERROR")
        /\ ProtocolFailure <=>
               query.thrown[1].code \in {Some("MIRROR_NODE_HTTP_ERROR"), Some("NOT_FOUND")}


\* ------------------------------------------------------------------ C24
\* the transactions list of the successful response of a finished
\* queryTransaction
TransactionsAnswered ==
    /\ query.pc = "done"
    /\ query.method = "queryTransaction"
    /\ query.response # None
    /\ Ok(query.response[1])
    /\ query.response[1].body.parses

\* C24: a queryTransaction whose successful response has an empty or
\* missing transactions list returns nothing and throws NOT_FOUND; with a
\* non-empty list it returns the conversion of the first element.
C24_EmptyListIsNotFound ==
    TransactionsAnswered =>
        LET transactions == query.response[1].body.json.transactions
        IN  IF transactions.kind # "array" \/ transactions.items = << >>
            THEN /\ query.returned = None
                 /\ query.thrown # None
                 /\ query.thrown[1].kind = "HieroError"
                 /\ query.thrown[1].code = Some("NOT_FOUND")
            ELSE /\ query.thrown = None
                 /\ query.returned = Some(convertTransactionInfo(transactions.items[1]))

\* an empty list was answered and NOT_FOUND thrown
C24_Witness ==
    /\ TransactionsAnswered
    /\ query.response[1].body.json.transactions = ArrayOf(<< >>)
    /\ query.thrown # None
    /\ query.thrown[1].code = Some("NOT_FOUND")

\* ------------------------------------------------------------------ C25
\* the GETs issued for invocation n
RequestsOf(n) == {i \in 1..Len(requests) : requests[i].invocation = n}

\* C25: every invocation of a query method, in progress or finished in any
\* way, has issued exactly one GET, for the path of the method.
C25_OneGetPerInvocation ==
    /\ \A n \in 1..query.invocation : Cardinality(RequestsOf(n)) = 1
    /\ Len(requests) = query.invocation
    /\ query.invocation > 0 => requests[Len(requests)].path = query.path

\* a second invocation has finished after a first one that failed at the
\* transport level or with a non-success status
C25_Witness ==
    /\ query.invocation = 2
    /\ query.pc = "done"
    /\ query.thrown # None
    /\ query.thrown[1].code \in {Some("MIRROR_NODE_ERROR"), Some("MIRROR_NODE_HTTP_ERROR")}
    /\ Len(requests) = 2


\* ------------------------------------------------------------------ C27
\* C27: every result of normalizeError is a HieroError; the result for a
\* HieroError is that object; for an Error it has the Error's message, the
\* string of status._code or SDK_ERROR as code, the context given and the
\* Error as cause; for any other value it has String(value) as message and
\* code UNKNOWN; normalizing a result again gives the identical object.
C27_NormalizeErrorWrapsOnce ==
    /\ \A i \in 1..Len(output) :
           /\ output[i].result.kind = "HieroError"
           /\ i > 1 => output[i].result = output[i - 1].result
    /\ output # << >> =>
           LET result == output[1].result
               context == output[1].context
           IN  CASE input.kind = "HieroError" -> result = input
                 [] input.kind = "Error" ->
                        /\ result.msg = input.msg
                        /\ result.code =
                               (CASE input.statusCode = None -> Some("SDK_ERROR")
                                  [] input.statusCode = Some(0) -> Some("0")
                                  [] input.statusCode = Some(22) -> Some("22")
                                  [] input.statusCode = Some(404) -> Some("404"))
                        /\ result.context = context
                        /\ result.cause = Some(input)
                        /\ result.origin # input.origin
                 [] OTHER ->
                        /\ result.msg =
                               (CASE input.msg = "number:42" -> "42"
                                  [] input.msg = "null:" -> "null"
                                  [] input.msg = "undefined:" -> "undefined"
                                  [] OTHER -> input.msg)
                        /\ result.code = Some("UNKNOWN")

\* an SDK error with status code 404 was wrapped and its result normalized
\* again under another context
C27_Witness ==
    /\ Len(output) = 2
    /\ input.kind = "Error"
    /\ input.statusCode = Some(404)
    /\ output[1].result.code = Some("404")
    /\ output[1].context # output[2].context


\* ------------------------------------------------------------------ C29
\* C29: every ledger client constructed so far is closed or is the client
\* of the stored singleton; an initialize call that throws has stored no
\* singleton.
C29_NoClientIsLeaked ==
    /\ \A i \in 1..Len(clients) :
           clients[i].open => (instance # None /\ instance[1].client = i)
    /\ (Called("initialize") /\ staticResult.found = None /\ staticResult.thrown # None) =>
           instance = None


\* ------------------------------------------------------------------ C28
\* number of occurrences of l in the registry ls
Registrations(ls, l) == Cardinality({j \in 1..Len(ls) : ls[j] = l})

\* C28: in a before-dispatch that has returned (the transaction was
\* submitted after it), every listener that was registered once when the
\* dispatch began, defines the before-hook, and was neither added nor
\* removed while the dispatch was in flight, has had its hook invoked exactly
\* once by that dispatch.
C28_StayingListenerInvokedOnce ==
    \A c \in Calls :
        LET tr == trace[c] IN
        \A i, s \in 1..Len(tr) :
            (/\ i < s
             /\ tr[i].k = "emit" /\ tr[i].site = "before"
             /\ tr[s].k = "submit"
             /\ \A m \in (i + 1)..(s - 1) : tr[m].k # "emit") =>
                \A l \in Listeners :
                    (/\ Registrations(tr[i].reg, l) = 1
                     /\ DefinesHook(l, "before")
                     /\ \A m \in (i + 1)..(s - 1) :
                            tr[m].k \in {"add", "remove"} => tr[m].l # l) =>
                        Cardinality({m \in (i + 1)..(s - 1) :
                                        tr[m].k = "begin" /\ tr[m].l = l}) = 1


\* ------------------------------------------------------------------ C30
\* the file transactions of a createFile call that resolved: one create
\* holding [0, min(n, 4096)), then ceil(n/4096) - 1 appends (none when
\* n <= 4096), each starting where the one before ended and holding at most
\* 4096 bytes, the last one ending at n
ChunksCoverContents(st) ==
    LET n == fileContents
        chunks == st.chunks
    IN  /\ Len(chunks) >= 1
        /\ chunks[1] = [k |-> "create", from |-> 0, to |-> IF n < 4096 THEN n ELSE 4096]
        /\ Len(chunks) - 1 = (IF n <= 4096 THEN 0 ELSE ((n + 4095) \div 4096) - 1)
        /\ \A j \in 2..Len(chunks) :
               /\ chunks[j].k = "append"
               /\ chunks[j].from = chunks[j - 1].to
               /\ chunks[j].from < chunks[j].to
        /\ \A j \in 1..Len(chunks) : chunks[j].to - chunks[j].from <= 4096
        /\ chunks[Len(chunks)].to = n

\* number of dispatches of a trace at the given sites
EmitsAt(tr, sites) ==
    Cardinality({i \in 1..Len(tr) : tr[i].k = "emit" /\ tr[i].site \in sites})

\* C30: a createFile call that has resolved has issued the create and the
\* appends that cover its contents in order; a createFile call that has
\* ended after submitting its create has dispatched one before-event and
\* one after-event.
C30_ChunksInOrderOneBeforeOneAfter ==
    \A c \in Calls :
        (call[c].pc = "done" /\ call[c].op = "FileClient.createFile") =>
            /\ call[c].result[1].ok => ChunksCoverContents(call[c])
            /\ call[c].chunks # << >> =>
                   /\ EmitsAt(trace[c], {"before"}) = 1
                   /\ EmitsAt(trace[c], {"afterTry", "afterCatch"}) = 1

====
